---- MODULE Spec2Model ----
(***************************************************************************)
(* Order placement system: the SKU parser, the price allocation, the       *)
(* complementary-item aggregation and the ProcessOrders orchestration.     *)
(*                                                                         *)
(* Go strings are sequences of one-character strings; a float64 is a       *)
(* record with its exact binary mantissa (a sequence of bits) and          *)
(* exponent, rounded to nearest-even at 53 bits as IEEE-754 does.          *)
(***************************************************************************)
EXTENDS Integers, Sequences, FiniteSets, TLC

(***************************************************************************)
(* Strings (package strings)                                               *)
(***************************************************************************)

\* strings.HasPrefix
HasPrefix(s, p) == Len(p) <= Len(s) /\ SubSeq(s, 1, Len(p)) = p

\* s[n:]
Drop(s, n) == SubSeq(s, n + 1, Len(s))

\* strings.TrimPrefix
TrimPrefix(s, p) == IF HasPrefix(s, p) THEN Drop(s, Len(p)) ELSE s

\* strings.Index for a one-character separator: 0 when absent
IndexOf(s, c) ==
  IF \E i \in 1..Len(s) : s[i] = c
  THEN CHOOSE i \in 1..Len(s) : s[i] = c /\ \A j \in 1..(i - 1) : s[j] # c
  ELSE 0

\* strings.Split(s, c): always at least one part, empty parts kept
RECURSIVE Split(_, _)
Split(s, c) ==
  LET i == IndexOf(s, c) IN
  IF i = 0 THEN <<s>>
  ELSE <<SubSeq(s, 1, i - 1)>> \o Split(Drop(s, i), c)

\* strings.Join(parts, sep)
RECURSIVE Join(_, _)
Join(parts, sep) ==
  IF Len(parts) = 0 THEN <<>>
  ELSE IF Len(parts) = 1 THEN parts[1]
  ELSE parts[1] \o sep \o Join(Tail(parts), sep)

\* unicode.IsSpace on the ASCII range
WhiteSpace == {" ", "\t", "\n", "\r", "\f"}

\* strings.TrimSpace
RECURSIVE TrimLeft(_)
TrimLeft(s) ==
  IF Len(s) > 0 /\ s[1] \in WhiteSpace THEN TrimLeft(Tail(s)) ELSE s

RECURSIVE TrimRight(_)
TrimRight(s) ==
  IF Len(s) > 0 /\ s[Len(s)] \in WhiteSpace
  THEN TrimRight(SubSeq(s, 1, Len(s) - 1)) ELSE s

TrimSpace(s) == TrimRight(TrimLeft(s))

LowerCase ==
  <<"a","b","c","d","e","f","g","h","i","j","k","l","m",
    "n","o","p","q","r","s","t","u","v","w","x","y","z">>

UpperCase ==
  <<"A","B","C","D","E","F","G","H","I","J","K","L","M",
    "N","O","P","Q","R","S","T","U","V","W","X","Y","Z">>

\* strings.ToUpper
ToUpper(s) ==
  [i \in 1..Len(s) |->
     IF \E k \in 1..26 : LowerCase[k] = s[i]
     THEN UpperCase[CHOOSE k \in 1..26 : LowerCase[k] = s[i]]
     ELSE s[i]]

Digits == <<"0","1","2","3","4","5","6","7","8","9">>

IsDigit(c) == \E k \in 1..10 : Digits[k] = c

DigitVal(c) == (CHOOSE k \in 1..10 : Digits[k] = c) - 1

(***************************************************************************)
(* float64.  A value is [k, neg, m, e]: k is "fin", "inf" or "nan"; a      *)
(* finite value is (-1)^neg * m * 2^e with m a sequence of bits, most      *)
(* significant first, without leading or trailing zero (<<>> is zero).     *)
(***************************************************************************)

\* IEEE-754 binary64: 53 significant bits, least exponent of a bit, greatest
\* exponent of the leading bit
MantissaBits == 53
MinBitExp == -1074
MaxTopExp == 1023

\* the index of the first and of the last 1 of a bit sequence, 0 when none
FirstOne(b) ==
  IF \E i \in 1..Len(b) : b[i] = 1
  THEN CHOOSE i \in 1..Len(b) : b[i] = 1 /\ \A j \in 1..(i - 1) : b[j] = 0
  ELSE 0

LastOne(b) ==
  IF \E i \in 1..Len(b) : b[i] = 1
  THEN CHOOSE i \in 1..Len(b) : b[i] = 1 /\ \A j \in (i + 1)..Len(b) : b[j] = 0
  ELSE 0

StripLeading(b) ==
  IF FirstOne(b) = 0 THEN <<>> ELSE SubSeq(b, FirstOne(b), Len(b))

Zeros(n) == [i \in 1..n |-> 0]

\* the bits of a natural n < 2^30
BitLen(n) == CHOOSE k \in 0..30 : n < 2^k /\ (k = 0 \/ 2^(k - 1) <= n)

BitsOfNat(n) == [i \in 1..BitLen(n) |-> (n \div 2^(BitLen(n) - i)) % 2]

\* Arithmetic on bit sequences goes through limbs of LimbBits bits (most
\* significant first), so that a number of 110 bits takes 8 steps, not 110.
LimbBits == 14
LimbBase == 16384

PadTo(b, n) == Zeros(n - Len(b)) \o b

LimbCount(b) == (Len(b) + LimbBits - 1) \div LimbBits

RECURSIVE LimbValue(_, _, _)
LimbValue(b, from, n) ==
  IF n = 0 THEN 0 ELSE 2 * LimbValue(b, from, n - 1) + b[from + n]

ToLimbs(b) ==
  LET p == PadTo(b, LimbCount(b) * LimbBits) IN
  [j \in 1..LimbCount(b) |-> LimbValue(p, (j - 1) * LimbBits, LimbBits)]

FromLimbs(l) ==
  StripLeading([i \in 1..(Len(l) * LimbBits) |->
                  (l[((i - 1) \div LimbBits) + 1]
                     \div 2^(LimbBits - 1 - ((i - 1) % LimbBits))) % 2])

\* the natural a bit sequence of at most 2 limbs stands for
NatOfBits(b) ==
  LET l == ToLimbs(b) IN
  IF Len(l) = 0 THEN 0
  ELSE IF Len(l) = 1 THEN l[1]
  ELSE l[1] * LimbBase + l[2]

\* bits * q for a natural q < 2^16
RECURSIVE MulAux(_, _, _, _, _)
MulAux(l, q, i, carry, acc) ==
  IF i = 0 THEN BitsOfNat(carry) \o acc
  ELSE LET v == l[i] * q + carry IN
       MulAux(l, q, i - 1, v \div LimbBase,
              PadTo(BitsOfNat(v % LimbBase), LimbBits) \o acc)

MulSmall(b, q) ==
  LET l == ToLimbs(b) IN StripLeading(MulAux(l, q, Len(l), 0, <<>>))

\* bits divided by n, 0 < n < 2^16: quotient bits and remainder
RECURSIVE DivAux(_, _, _, _, _)
DivAux(l, n, i, rem, acc) ==
  IF i > Len(l) THEN [q |-> FromLimbs(acc), r |-> rem]
  ELSE LET v == rem * LimbBase + l[i] IN
       DivAux(l, n, i + 1, v % n, Append(acc, v \div n))

DivSmall(b, n) == DivAux(ToLimbs(b), n, 1, 0, <<>>)

\* bits + 1
IncBits(b) ==
  LET z == IF \E i \in 1..Len(b) : b[i] = 0
           THEN CHOOSE i \in 1..Len(b) :
                  b[i] = 0 /\ \A j \in (i + 1)..Len(b) : b[j] = 1
           ELSE 0
  IN SubSeq(b, 1, z - 1) \o <<1>> \o Zeros(Len(b) - z)

\* a + b and a - b (a >= b) on bit sequences of any length
RECURSIVE AddAux(_, _, _, _, _)
AddAux(x, y, i, carry, acc) ==
  IF i = 0 THEN <<carry>> \o acc
  ELSE LET v == x[i] + y[i] + carry IN
       AddAux(x, y, i - 1, v \div LimbBase, <<v % LimbBase>> \o acc)

MaxLen(a, b) == IF Len(a) > Len(b) THEN Len(a) ELSE Len(b)

AddBits(a, b) ==
  LET n == MaxLen(a, b)
      x == ToLimbs(PadTo(a, n))
      y == ToLimbs(PadTo(b, n))
  IN FromLimbs(AddAux(x, y, Len(x), 0, <<>>))

RECURSIVE SubAux(_, _, _, _, _)
SubAux(x, y, i, borrow, acc) ==
  IF i = 0 THEN acc
  ELSE LET v == x[i] - y[i] - borrow IN
       SubAux(x, y, i - 1, IF v < 0 THEN 1 ELSE 0,
              <<IF v < 0 THEN v + LimbBase ELSE v>> \o acc)

SubBits(a, b) ==
  LET n == MaxLen(a, b)
      x == ToLimbs(PadTo(a, n))
      y == ToLimbs(PadTo(b, n))
  IN FromLimbs(SubAux(x, y, Len(x), 0, <<>>))

\* TRUE iff a < b
LessBits(a, b) ==
  LET x == StripLeading(a)
      y == StripLeading(b) IN
  \/ Len(x) < Len(y)
  \/ /\ Len(x) = Len(y)
     /\ \E i \in 1..Len(x) :
          /\ x[i] < y[i]
          /\ \A j \in 1..(i - 1) : x[j] = y[j]

FloatNaN == [k |-> "nan", neg |-> FALSE, m |-> <<>>, e |-> 0]
FloatInf(neg) == [k |-> "inf", neg |-> neg, m |-> <<>>, e |-> 0]
FloatZero == [k |-> "fin", neg |-> FALSE, m |-> <<>>, e |-> 0]

\* the canonical finite value m * 2^e: trailing zero bits go to the exponent
Canon(neg, b, e) ==
  IF LastOne(b) = 0 THEN [k |-> "fin", neg |-> neg, m |-> <<>>, e |-> 0]
  ELSE [k |-> "fin", neg |-> neg, m |-> SubSeq(b, FirstOne(b), LastOne(b)),
        e |-> e + Len(b) - LastOne(b)]

\* round (b * 2^e, plus a nonzero tail below bit e when sticky) to the nearest
\* float64, ties to even; b has no leading zero
RoundFloat(neg, b, e, sticky) ==
  LET L == Len(b)
      t == IF e + L - MantissaBits > MinBitExp
           THEN e + L - MantissaBits ELSE MinBitExp
      d == t - e
      kept == IF d >= L THEN <<>> ELSE SubSeq(b, 1, L - d)
      guard == IF d > L \/ d <= 0 THEN 0 ELSE b[L - d + 1]
      rest == sticky \/ (d > L /\ L > 0)
                     \/ \E j \in (L - d + 2)..L : j >= 1 /\ b[j] = 1
      odd == Len(kept) > 0 /\ kept[Len(kept)] = 1
      up == guard = 1 /\ (rest \/ odd)
      r == IF up THEN IncBits(kept) ELSE kept
  IN
  IF d <= 0 THEN
    IF e + L - 1 > MaxTopExp THEN FloatInf(neg) ELSE Canon(neg, b, e)
  ELSE IF Len(r) + t - 1 > MaxTopExp THEN FloatInf(neg)
  ELSE Canon(neg, r, t)

\* float64(n) for an int n of small magnitude (exact)
FloatOfInt(n) ==
  IF n < 0 THEN Canon(TRUE, BitsOfNat(-n), 0) ELSE Canon(FALSE, BitsOfNat(n), 0)

\* the float64 n * 2^e, for writing inputs down
Float(n, e) == Canon(FALSE, BitsOfNat(n), e)

FloatIsZero(x) == x.k = "fin" /\ Len(x.m) = 0

\* x / y; the mantissa of a finite y has at most 30 bits (every divisor of
\* the program is float64 of an int)
FloatDiv(x, y) ==
  LET neg == x.neg # y.neg
      n == NatOfBits(y.m)
      s == IF MantissaBits + 2 + Len(y.m) > Len(x.m)
           THEN MantissaBits + 2 + Len(y.m) - Len(x.m) ELSE 0
      qr == DivSmall(x.m \o Zeros(s), n)
  IN
  IF x.k = "nan" \/ y.k = "nan" THEN FloatNaN
  ELSE IF x.k = "inf" THEN (IF y.k = "inf" THEN FloatNaN ELSE FloatInf(neg))
  ELSE IF y.k = "inf" THEN [FloatZero EXCEPT !.neg = neg]
  ELSE IF FloatIsZero(y) THEN (IF FloatIsZero(x) THEN FloatNaN ELSE FloatInf(neg))
  ELSE IF FloatIsZero(x) THEN [FloatZero EXCEPT !.neg = neg]
  ELSE RoundFloat(neg, qr.q, x.e - y.e - s, qr.r # 0)

\* x * y; the mantissa of a finite y has at most 30 bits (every multiplier of
\* the program is float64 of an int)
FloatMul(x, y) ==
  LET neg == x.neg # y.neg IN
  IF x.k = "nan" \/ y.k = "nan" THEN FloatNaN
  ELSE IF x.k = "inf" \/ y.k = "inf"
       THEN (IF FloatIsZero(x) \/ FloatIsZero(y) THEN FloatNaN ELSE FloatInf(neg))
  ELSE IF FloatIsZero(x) \/ FloatIsZero(y) THEN [FloatZero EXCEPT !.neg = neg]
  ELSE RoundFloat(neg, MulSmall(x.m, NatOfBits(y.m)), x.e + y.e, FALSE)

\* TRUE iff |x| < |y| for finite nonzero x and y
MagnitudeLess(x, y) ==
  LET tx == x.e + Len(x.m)
      ty == y.e + Len(y.m)
      e == IF x.e < y.e THEN x.e ELSE y.e IN
  IF tx # ty THEN tx < ty
  ELSE LessBits(x.m \o Zeros(x.e - e), y.m \o Zeros(y.e - e))

\* hi + lo or hi - lo for finite nonzero |hi| >= |lo|, with the sign of hi;
\* a lo below an eighth of the last bit of hi only leaves a sticky tail
AddMagnitudes(hi, lo, subtract) ==
  LET far == hi.e - 3 >= lo.e + Len(lo.m)
      e == IF far THEN hi.e - 3 ELSE IF hi.e < lo.e THEN hi.e ELSE lo.e
      h == hi.m \o Zeros(hi.e - e)
      l == IF far THEN <<>> ELSE lo.m \o Zeros(lo.e - e)
      sum == IF ~subtract THEN AddBits(h, l)
             ELSE IF far THEN SubBits(h, <<1>>)
             ELSE SubBits(h, l)
  IN
  IF Len(sum) = 0 THEN FloatZero
  ELSE RoundFloat(hi.neg, sum, e, far)

\* x + y
FloatAdd(x, y) ==
  IF x.k = "nan" \/ y.k = "nan" THEN FloatNaN
  ELSE IF x.k = "inf"
       THEN (IF y.k = "inf" /\ x.neg # y.neg THEN FloatNaN ELSE x)
  ELSE IF y.k = "inf" THEN y
  ELSE IF FloatIsZero(x) /\ FloatIsZero(y)
       THEN [FloatZero EXCEPT !.neg = x.neg /\ y.neg]
  ELSE IF FloatIsZero(x) THEN y
  ELSE IF FloatIsZero(y) THEN x
  ELSE IF MagnitudeLess(x, y) THEN AddMagnitudes(y, x, x.neg # y.neg)
  ELSE AddMagnitudes(x, y, x.neg # y.neg)

\* x - y
FloatSub(x, y) ==
  IF y.k = "nan" THEN FloatNaN ELSE FloatAdd(x, [y EXCEPT !.neg = ~y.neg])

\* x < 0 in Go: false for NaN and for either zero
FloatNegative(x) ==
  \/ x.k = "inf" /\ x.neg
  \/ x.k = "fin" /\ x.neg /\ Len(x.m) > 0

(***************************************************************************)
(* pkg/errors and value_object.Price                                       *)
(***************************************************************************)

NoErr == "nil"
ErrInvalidInput == "invalid input"
ErrUnprocessableEntity == "unprocessable entity"

\* a *Price is NilPrice or the float64 amount of the Price it points to
NilPrice == [k |-> "nil", neg |-> FALSE, m |-> <<>>, e |-> 0]

PriceFail == [p |-> NilPrice, err |-> ErrInvalidInput]

NewPrice(amount) ==
  IF FloatNegative(amount) THEN PriceFail
  ELSE IF amount.k = "nan" \/ amount.k = "inf" THEN PriceFail
  ELSE [p |-> amount, err |-> NoErr]

ZeroPrice == FloatZero

Amount(p) == IF p = NilPrice THEN FloatZero ELSE p

Add(p, other) ==
  NewPrice(FloatAdd(Amount(p), Amount(other)))

Subtract(p, other) ==
  NewPrice(FloatSub(Amount(p), Amount(other)))

Multiply(p, multiplier) ==
  IF p = NilPrice THEN [p |-> ZeroPrice, err |-> NoErr]
  ELSE NewPrice(FloatMul(p, multiplier))

MultiplyByInt(p, quantity) ==
  IF quantity < 0 THEN PriceFail
  ELSE Multiply(p, FloatOfInt(quantity))

Divide(p, divisor) ==
  IF FloatIsZero(divisor) THEN PriceFail
  ELSE IF p = NilPrice THEN [p |-> ZeroPrice, err |-> NoErr]
  ELSE NewPrice(FloatDiv(p, divisor))

DivideByInt(p, divisor) ==
  IF divisor = 0 THEN PriceFail
  ELSE Divide(p, FloatOfInt(divisor))

(***************************************************************************)
(* parser.PriceCalculatorImpl                                              *)
(***************************************************************************)

\* CalculateUnitPrice handing the total back undivided
CalculateUnitPrice_Undivided(totalPrice, quantity) ==
  IF totalPrice = NilPrice THEN PriceFail
  ELSE IF quantity <= 0 THEN PriceFail
  ELSE [p |-> totalPrice, err |-> NoErr]

\* CalculateUnitPrice refusing only a quantity below zero
CalculateUnitPrice_ZeroAllowed(totalPrice, quantity) ==
  IF totalPrice = NilPrice THEN PriceFail
  ELSE IF quantity < 0 THEN PriceFail
  ELSE IF quantity = 0 THEN [p |-> totalPrice, err |-> NoErr]
  ELSE DivideByInt(totalPrice, quantity)

CalculateUnitPrice(totalPrice, quantity) ==
  IF totalPrice = NilPrice THEN PriceFail
  ELSE IF quantity <= 0 THEN PriceFail
  ELSE DivideByInt(totalPrice, quantity)

\* CalculateTotalPrice without the check of the quantity
CalculateTotalPrice_AnyQuantity(unitPrice, quantity) ==
  IF unitPrice = NilPrice THEN PriceFail
  ELSE MultiplyByInt(unitPrice, quantity)

CalculateTotalPrice(unitPrice, quantity) ==
  IF unitPrice = NilPrice THEN PriceFail
  ELSE IF quantity <= 0 THEN PriceFail
  ELSE MultiplyByInt(unitPrice, quantity)

(***************************************************************************)
(* parser.ProductParserImpl                                                *)
(***************************************************************************)

prefixes ==
  << <<"%","2","0","-","-","%","2","0","x">>,
     <<"%","2","0","-","-">>,
     <<"-","-","%","2","0","x">>,
     <<"x","2","-","3","&">>,
     <<"%","2","0","x">>,
     <<"%","2","0","-">>,
     <<"-","-">> >>

isValidProductStart(s) ==
  IF Len(s) < 2 THEN FALSE ELSE HasPrefix(s, <<"F","G">>)

\* the loop of CleanPrefix left after its first pass
CleanLoop_OnePass(cleaned) ==
  IF \E i \in 1..Len(prefixes) : HasPrefix(cleaned, prefixes[i])
  THEN LET i == CHOOSE i \in 1..Len(prefixes) :
                  /\ HasPrefix(cleaned, prefixes[i])
                  /\ \A j \in 1..(i - 1) : ~HasPrefix(cleaned, prefixes[j])
       IN Drop(cleaned, Len(prefixes[i]))
  ELSE IF HasPrefix(cleaned, <<"-">>) /\ ~isValidProductStart(Drop(cleaned, 1))
  THEN Drop(cleaned, 1)
  ELSE cleaned

RECURSIVE CleanLoop(_)
CleanLoop(cleaned) ==
  IF \E i \in 1..Len(prefixes) : HasPrefix(cleaned, prefixes[i])
  THEN LET i == CHOOSE i \in 1..Len(prefixes) :
                  /\ HasPrefix(cleaned, prefixes[i])
                  /\ \A j \in 1..(i - 1) : ~HasPrefix(cleaned, prefixes[j])
       IN CleanLoop(Drop(cleaned, Len(prefixes[i])))
  ELSE IF HasPrefix(cleaned, <<"-">>) /\ ~isValidProductStart(Drop(cleaned, 1))
  THEN CleanLoop(Drop(cleaned, 1))
  ELSE cleaned

\* one pass of the loop body that keeps the dash it means to cut
CleanPass_DashKept(cleaned) ==
  IF \E i \in 1..Len(prefixes) : HasPrefix(cleaned, prefixes[i])
  THEN LET i == CHOOSE i \in 1..Len(prefixes) :
                  /\ HasPrefix(cleaned, prefixes[i])
                  /\ \A j \in 1..(i - 1) : ~HasPrefix(cleaned, prefixes[j])
       IN [cleaned |-> Drop(cleaned, Len(prefixes[i])), next |-> TRUE]
  ELSE IF HasPrefix(cleaned, <<"-">>) /\ ~isValidProductStart(Drop(cleaned, 1))
  THEN [cleaned |-> cleaned, next |-> TRUE]
  ELSE [cleaned |-> cleaned, next |-> FALSE]

\* lines 111-131, one pass of the loop body: the string after it, and
\* whether the pass ends in `goto next` (TRUE) or in `break` (FALSE)
CleanPass(cleaned) ==
  IF \E i \in 1..Len(prefixes) : HasPrefix(cleaned, prefixes[i])
  THEN LET i == CHOOSE i \in 1..Len(prefixes) :
                  /\ HasPrefix(cleaned, prefixes[i])
                  /\ \A j \in 1..(i - 1) : ~HasPrefix(cleaned, prefixes[j])
       IN [cleaned |-> Drop(cleaned, Len(prefixes[i])), next |-> TRUE]
  ELSE IF HasPrefix(cleaned, <<"-">>) /\ ~isValidProductStart(Drop(cleaned, 1))
  THEN [cleaned |-> Drop(cleaned, 1), next |-> TRUE]
  ELSE [cleaned |-> cleaned, next |-> FALSE]

CleanPrefix(productId) ==
  IF productId = <<>> THEN <<>> ELSE CleanLoop(productId)

\* strconv.Atoi on a string of decimal digits: an error beyond the int64 range
MaxInt64Digits ==
  <<"9","2","2","3","3","7","2","0","3","6","8","5","4","7","7","5","8","0","7">>

RECURSIVE StripZeroDigits(_)
StripZeroDigits(d) ==
  IF Len(d) > 0 /\ d[1] = "0" THEN StripZeroDigits(Tail(d)) ELSE d

DigitsGreater(a, b) ==
  \E i \in 1..Len(a) :
    /\ DigitVal(a[i]) > DigitVal(b[i])
    /\ \A j \in 1..(i - 1) : a[j] = b[j]

RECURSIVE NatOfDigits(_)
NatOfDigits(d) ==
  IF Len(d) = 0 THEN 0
  ELSE 10 * NatOfDigits(SubSeq(d, 1, Len(d) - 1)) + DigitVal(d[Len(d)])

Atoi(d) ==
  LET z == StripZeroDigits(d) IN
  IF \/ Len(z) > Len(MaxInt64Digits)
     \/ Len(z) = Len(MaxInt64Digits) /\ DigitsGreater(z, MaxInt64Digits)
  THEN [val |-> 0, err |-> "value out of range"]
  ELSE [val |-> NatOfDigits(z), err |-> NoErr]

\* the match of the regular expression \*(\d+)$ : the index of its `*`, or 0
QuantityMatch(productId) ==
  IF \E i \in 1..(Len(productId) - 1) :
       /\ productId[i] = "*"
       /\ \A j \in (i + 1)..Len(productId) : IsDigit(productId[j])
  THEN CHOOSE i \in 1..(Len(productId) - 1) :
       /\ productId[i] = "*"
       /\ \A j \in (i + 1)..Len(productId) : IsDigit(productId[j])
  ELSE 0

ExtractQuantity(productId) ==
  LET i == QuantityMatch(productId)
      qty == Atoi(Drop(productId, i))
  IN
  IF i > 0 /\ qty.err = NoErr
  THEN [cleanId |-> SubSeq(productId, 1, i - 1), quantity |-> qty.val,
        hasQuantity |-> TRUE]
  ELSE [cleanId |-> productId, quantity |-> 1, hasQuantity |-> FALSE]

OPPOA3 == <<"O","P","P","O","A","3">>

knownPatterns ==
  { <<"F","G","0","A","-","M","A","T","T","E">>,
    <<"F","G","0","A","-","C","L","E","A","R">>,
    <<"F","G","0","5","-","M","A","T","T","E">> }

\* inferModelId without the default for a key that is not listed
inferModelId_KnownOnly(filmType, texture, originalId) ==
  LET key == filmType \o <<"-">> \o texture IN
  IF key \in knownPatterns THEN OPPOA3 ELSE <<>>

inferModelId(filmType, texture, originalId) ==
  LET key == filmType \o <<"-">> \o texture IN
  IF key \in knownPatterns THEN OPPOA3 ELSE OPPOA3

fixIncompleteProductId(productId) ==
  LET parts == Split(productId, "-") IN
  IF Len(parts) = 2 THEN
    LET filmType == parts[1]
        texture == IF parts[2] = <<"M","A","T">>
                   THEN <<"M","A","T","T","E">> ELSE parts[2]
        modelId == inferModelId(filmType, texture, productId)
    IN IF modelId # <<>>
       THEN filmType \o <<"-">> \o texture \o <<"-">> \o modelId
       ELSE productId
  ELSE productId

\* the loop of SplitBundle without the test part != ""
RECURSIVE SplitParts_KeepEmpty(_)
SplitParts_KeepEmpty(parts) ==
  IF Len(parts) = 0 THEN <<>>
  ELSE LET part == TrimPrefix(TrimSpace(parts[1]), <<"%","2","0","x">>) IN
       <<fixIncompleteProductId(part)>> \o SplitParts_KeepEmpty(Tail(parts))

RECURSIVE SplitParts(_)
SplitParts(parts) ==
  IF Len(parts) = 0 THEN <<>>
  ELSE LET part == TrimPrefix(TrimSpace(parts[1]), <<"%","2","0","x">>) IN
       IF part # <<>>
       THEN <<fixIncompleteProductId(part)>> \o SplitParts(Tail(parts))
       ELSE SplitParts(Tail(parts))

SplitBundle(productId) == SplitParts(Split(productId, "/"))

isValidFilmType(filmType) ==
  \/ filmType \in { <<"F","G","0","A">>, <<"F","G","0","5">>,
                    <<"F","G","1","A">>, <<"F","G","1","B">> }
  \/ HasPrefix(filmType, <<"F","G">>) /\ Len(filmType) >= 3

validTextures ==
  << <<"C","L","E","A","R">>, <<"M","A","T","T","E">>,
     <<"P","R","I","V","A","C","Y">> >>

isValidTexture(texture) == \E i \in 1..Len(validTextures) : validTextures[i] = texture

normalizeTexture(texture) ==
  LET u == ToUpper(texture) IN
  IF u = <<"M","A","T">> THEN <<"M","A","T","T","E">>
  ELSE IF isValidTexture(u) THEN u
  ELSE ToUpper(texture)

CodeFail == [materialId |-> <<>>, modelId |-> <<>>, err |-> ErrInvalidInput]

\* ParseProductCode taking the third segment alone as the model id
ParseProductCode_ThirdSegment(productId) ==
  LET parts == Split(productId, "-") IN
  IF productId = <<>> THEN CodeFail
  ELSE IF Len(parts) < 3 THEN CodeFail
  ELSE LET filmType == parts[1]
           texture == normalizeTexture(parts[2])
       IN
       IF ~isValidFilmType(filmType) THEN CodeFail
       ELSE IF ~isValidTexture(texture) THEN CodeFail
       ELSE IF parts[3] = <<>> THEN CodeFail
       ELSE [materialId |-> filmType \o <<"-">> \o texture,
             modelId |-> parts[3],
             err |-> NoErr]

ParseProductCode(productId) ==
  LET parts == Split(productId, "-") IN
  IF productId = <<>> THEN CodeFail
  ELSE IF Len(parts) < 3 THEN CodeFail
  ELSE LET filmType == parts[1]
           texture == normalizeTexture(parts[2])
       IN
       IF ~isValidFilmType(filmType) THEN CodeFail
       ELSE IF ~isValidTexture(texture) THEN CodeFail
       ELSE IF parts[3] = <<>> THEN CodeFail
       ELSE [materialId |-> filmType \o <<"-">> \o texture,
             modelId |-> Join(SubSeq(parts, 3, Len(parts)), <<"-">>),
             err |-> NoErr]

RECURSIVE SumSeq(_)
SumSeq(q) == IF Len(q) = 0 THEN 0 ELSE q[1] + SumSeq(Tail(q))

\* the first loop of Parse keeping the 1 that ExtractQuantity returns for a
\* member without multiplier
ProductQuantities_DefaultOne(bundleProducts, originalQty) ==
  [i \in 1..Len(bundleProducts) |-> ExtractQuantity(bundleProducts[i]).quantity]

\* the first loop of Parse: the quantity of every bundle member
ProductQuantities(bundleProducts, originalQty) ==
  [i \in 1..Len(bundleProducts) |->
     LET x == ExtractQuantity(bundleProducts[i]) IN
     IF ~x.hasQuantity THEN originalQty ELSE x.quantity]

ParseFail == [products |-> <<>>, err |-> ErrInvalidInput]

\* the second loop of Parse, from member i on: the first error ends it
RECURSIVE ParseMembers(_, _, _, _, _, _)
ParseMembers(bundleProducts, productQuantities, originalQty, pricePerUnit, i, acc) ==
  IF i > Len(bundleProducts) THEN [products |-> acc, err |-> NoErr]
  ELSE LET cleanProduct == ExtractQuantity(bundleProducts[i]).cleanId
           quantity == productQuantities[i]
           productTotalPrice == CalculateTotalPrice(pricePerUnit, quantity)
       IN
       IF productTotalPrice.err # NoErr
       THEN [products |-> <<>>, err |-> productTotalPrice.err]
       ELSE ParseMembers(bundleProducts, productQuantities, originalQty,
                         pricePerUnit, i + 1,
                         Append(acc, [CleanProductId |-> cleanProduct,
                                      Quantity |-> quantity,
                                      OriginalQty |-> originalQty,
                                      UnitPrice |-> pricePerUnit,
                                      TotalPrice |-> productTotalPrice.p]))

Parse(platformProductId, originalQty, totalPrice) ==
  IF platformProductId = <<>> THEN ParseFail
  ELSE IF totalPrice = NilPrice THEN ParseFail
  ELSE LET cleanedId == CleanPrefix(platformProductId)
           bundleProducts == SplitBundle(cleanedId)
           productQuantities == ProductQuantities(bundleProducts, originalQty)
           totalQuantityUnits == SumSeq(productQuantities)
           pricePerUnit == CalculateUnitPrice(totalPrice, totalQuantityUnits)
       IN
       IF pricePerUnit.err # NoErr
       THEN [products |-> <<>>, err |-> pricePerUnit.err]
       ELSE ParseMembers(bundleProducts, productQuantities, originalQty,
                         pricePerUnit.p, 1, <<>>)

(***************************************************************************)
(* entity: Product, CleanedOrder, InputOrder, ComplementaryCalculation.    *)
(* A pointer carries isNil; a slice is [isNil, items].                     *)
(***************************************************************************)

NilSlice == [isNil |-> TRUE, items |-> <<>>]
EmptySlice == [isNil |-> FALSE, items |-> <<>>]

\* append(s, x...) : appending nothing to a nil slice leaves it nil
AppendAll(s, xs) ==
  IF Len(xs) = 0 THEN s ELSE [isNil |-> FALSE, items |-> s.items \o xs]

NilProduct ==
  [isNil |-> TRUE, ProductId |-> <<>>, MaterialId |-> <<>>, ModelId |-> <<>>,
   Quantity |-> 0, UnitPrice |-> NilPrice, TotalPrice |-> NilPrice]

NilInputOrder ==
  [isNil |-> TRUE, No |-> 0, PlatformProductId |-> <<>>, Qty |-> 0,
   UnitPrice |-> NilPrice, TotalPrice |-> NilPrice]

GetTexture(p) ==
  LET parts == Split(p.MaterialId, "-") IN
  IF Len(parts) >= 2 THEN parts[2] ELSE <<>>

ToCleanedOrder(p, orderNo) ==
  [isNil |-> FALSE, No |-> orderNo, ProductId |-> p.ProductId,
   MaterialId |-> p.MaterialId, ModelId |-> p.ModelId, Qty |-> p.Quantity,
   UnitPrice |-> p.UnitPrice, TotalPrice |-> p.TotalPrice]

ProductIsValid(p) ==
  IF p.ProductId = <<>> THEN ErrInvalidInput
  ELSE IF p.MaterialId = <<>> THEN ErrInvalidInput
  ELSE IF p.ModelId = <<>> THEN ErrInvalidInput
  ELSE IF p.Quantity <= 0 THEN ErrInvalidInput
  ELSE IF p.UnitPrice = NilPrice \/ FloatNegative(Amount(p.UnitPrice))
       THEN ErrInvalidInput
  ELSE IF p.TotalPrice = NilPrice \/ FloatNegative(Amount(p.TotalPrice))
       THEN ErrInvalidInput
  ELSE NoErr

IsMainProduct(c) == c.MaterialId # <<>> /\ c.ModelId # <<>>

IsComplementaryProduct(c) == ~IsMainProduct(c)

\* InputOrder.IsValid asking for a unit price above zero
InputOrderIsValid_PositiveUnitPrice(o) ==
  IF o.No <= 0 THEN ErrInvalidInput
  ELSE IF o.PlatformProductId = <<>> THEN ErrInvalidInput
  ELSE IF o.Qty <= 0 THEN ErrInvalidInput
  ELSE IF o.UnitPrice = NilPrice \/ FloatNegative(Amount(o.UnitPrice))
          \/ FloatIsZero(Amount(o.UnitPrice))
       THEN ErrInvalidInput
  ELSE IF o.TotalPrice = NilPrice \/ FloatNegative(Amount(o.TotalPrice))
       THEN ErrInvalidInput
  ELSE NoErr

InputOrderIsValid(o) ==
  IF o.No <= 0 THEN ErrInvalidInput
  ELSE IF o.PlatformProductId = <<>> THEN ErrInvalidInput
  ELSE IF o.Qty <= 0 THEN ErrInvalidInput
  ELSE IF o.UnitPrice = NilPrice \/ FloatNegative(Amount(o.UnitPrice))
       THEN ErrInvalidInput
  ELSE IF o.TotalPrice = NilPrice \/ FloatNegative(Amount(o.TotalPrice))
       THEN ErrInvalidInput
  ELSE NoErr

CleanedOrderIsValid(c) ==
  IF c.No <= 0 THEN ErrInvalidInput
  ELSE IF c.ProductId = <<>> THEN ErrInvalidInput
  ELSE IF c.Qty <= 0 THEN ErrInvalidInput
  ELSE IF c.UnitPrice = NilPrice \/ FloatNegative(Amount(c.UnitPrice))
       THEN ErrInvalidInput
  ELSE IF c.TotalPrice = NilPrice \/ FloatNegative(Amount(c.TotalPrice))
       THEN ErrInvalidInput
  ELSE NoErr

WipingClothProductId == <<"W","I","P","I","N","G","-","C","L","O","T","H">>
CleanerSuffix == <<"-","C","L","E","A","N","N","E","R">>

NilItem == [isNil |-> TRUE, ProductId |-> <<>>, Quantity |-> 0]

\* Cleaners is a map: a function whose domain is the set of its keys
NewComplementaryCalculation == [WipingCloth |-> NilItem, Cleaners |-> <<>>]

generateCleanerId(texture) == ToUpper(texture) \o CleanerSuffix

IsValidTexture(texture) ==
  ToUpper(texture) \in { <<"C","L","E","A","R">>, <<"M","A","T","T","E">>,
                         <<"P","R","I","V","A","C","Y">> }

\* AddProduct counting one wiping cloth per product, not per unit
AddProduct_OnePerProduct(c, product) ==
  LET texture == GetTexture(product)
      wiping == IF c.WipingCloth.isNil
                THEN [isNil |-> FALSE, ProductId |-> WipingClothProductId,
                      Quantity |-> 0]
                ELSE c.WipingCloth
      cleaner == IF texture \in DOMAIN c.Cleaners
                 THEN c.Cleaners[texture]
                 ELSE [isNil |-> FALSE, ProductId |-> generateCleanerId(texture),
                       Quantity |-> 0]
  IN
  IF product.isNil THEN [c |-> c, err |-> ErrInvalidInput]
  ELSE IF texture = <<>> THEN [c |-> c, err |-> ErrInvalidInput]
  ELSE IF ~IsValidTexture(texture) THEN [c |-> c, err |-> ErrInvalidInput]
  ELSE [c |-> [WipingCloth |-> [wiping EXCEPT !.Quantity = wiping.Quantity + 1],
               Cleaners |->
                 [t \in DOMAIN c.Cleaners \cup {texture} |->
                    IF t = texture
                    THEN [cleaner EXCEPT !.Quantity =
                                           cleaner.Quantity + product.Quantity]
                    ELSE c.Cleaners[t]]],
        err |-> NoErr]

\* AddProduct counting the wiping cloth before it looks at the texture
AddProduct_ClothFirst(c, product) ==
  LET texture == GetTexture(product)
      wiping == IF c.WipingCloth.isNil
                THEN [isNil |-> FALSE, ProductId |-> WipingClothProductId,
                      Quantity |-> 0]
                ELSE c.WipingCloth
      counted == [c EXCEPT !.WipingCloth =
                    [wiping EXCEPT !.Quantity = wiping.Quantity + product.Quantity]]
      cleaner == IF texture \in DOMAIN c.Cleaners
                 THEN c.Cleaners[texture]
                 ELSE [isNil |-> FALSE, ProductId |-> generateCleanerId(texture),
                       Quantity |-> 0]
  IN
  IF product.isNil THEN [c |-> c, err |-> ErrInvalidInput]
  ELSE IF texture = <<>> THEN [c |-> counted, err |-> ErrInvalidInput]
  ELSE IF ~IsValidTexture(texture) THEN [c |-> counted, err |-> ErrInvalidInput]
  ELSE [c |-> [WipingCloth |-> counted.WipingCloth,
               Cleaners |->
                 [t \in DOMAIN c.Cleaners \cup {texture} |->
                    IF t = texture
                    THEN [cleaner EXCEPT !.Quantity =
                                           cleaner.Quantity + product.Quantity]
                    ELSE c.Cleaners[t]]],
        err |-> NoErr]

\* the calculation after AddProduct(product), and the error it returns
AddProduct(c, product) ==
  LET texture == GetTexture(product)
      wiping == IF c.WipingCloth.isNil
                THEN [isNil |-> FALSE, ProductId |-> WipingClothProductId,
                      Quantity |-> 0]
                ELSE c.WipingCloth
      cleaner == IF texture \in DOMAIN c.Cleaners
                 THEN c.Cleaners[texture]
                 ELSE [isNil |-> FALSE, ProductId |-> generateCleanerId(texture),
                       Quantity |-> 0]
  IN
  IF product.isNil THEN [c |-> c, err |-> ErrInvalidInput]
  ELSE IF texture = <<>> THEN [c |-> c, err |-> ErrInvalidInput]
  ELSE IF ~IsValidTexture(texture) THEN [c |-> c, err |-> ErrInvalidInput]
  ELSE [c |-> [WipingCloth |->
                 [wiping EXCEPT !.Quantity = wiping.Quantity + product.Quantity],
               Cleaners |->
                 [t \in DOMAIN c.Cleaners \cup {texture} |->
                    IF t = texture
                    THEN [cleaner EXCEPT !.Quantity =
                                           cleaner.Quantity + product.Quantity]
                    ELSE c.Cleaners[t]]],
        err |-> NoErr]

\* a complementary line with a price of 1 and the id as model id
ComplementaryOrder_Priced(no, item) ==
  [isNil |-> FALSE, No |-> no, ProductId |-> item.ProductId,
   MaterialId |-> <<>>, ModelId |-> item.ProductId, Qty |-> item.Quantity,
   UnitPrice |-> Float(1, 0), TotalPrice |-> Float(1, 0)]

ComplementaryOrder(no, item) ==
  [isNil |-> FALSE, No |-> no, ProductId |-> item.ProductId,
   MaterialId |-> <<>>, ModelId |-> <<>>, Qty |-> item.Quantity,
   UnitPrice |-> ZeroPrice, TotalPrice |-> ZeroPrice]

textures == validTextures

\* the loop of ToCleanedOrders skipping a cleaner of quantity 1
RECURSIVE CleanerOrders_MoreThanOne(_, _, _, _)
CleanerOrders_MoreThanOne(c, i, currentNo, orders) ==
  IF i > Len(textures) THEN orders
  ELSE IF textures[i] \in DOMAIN c.Cleaners /\ c.Cleaners[textures[i]].Quantity > 1
  THEN CleanerOrders_MoreThanOne(c, i + 1, currentNo + 1,
         AppendAll(orders, <<ComplementaryOrder(currentNo, c.Cleaners[textures[i]])>>))
  ELSE CleanerOrders_MoreThanOne(c, i + 1, currentNo, orders)

\* the loop of ToCleanedOrders spending a number on a texture it skips
RECURSIVE CleanerOrders_SkipConsumes(_, _, _, _)
CleanerOrders_SkipConsumes(c, i, currentNo, orders) ==
  IF i > Len(textures) THEN orders
  ELSE IF textures[i] \in DOMAIN c.Cleaners /\ c.Cleaners[textures[i]].Quantity > 0
  THEN CleanerOrders_SkipConsumes(c, i + 1, currentNo + 1,
         AppendAll(orders, <<ComplementaryOrder(currentNo, c.Cleaners[textures[i]])>>))
  ELSE CleanerOrders_SkipConsumes(c, i + 1, currentNo + 1, orders)

\* the loop of ToCleanedOrders over textures, from index i on
RECURSIVE CleanerOrders(_, _, _, _)
CleanerOrders(c, i, currentNo, orders) ==
  IF i > Len(textures) THEN orders
  ELSE IF textures[i] \in DOMAIN c.Cleaners /\ c.Cleaners[textures[i]].Quantity > 0
  THEN CleanerOrders(c, i + 1, currentNo + 1,
         AppendAll(orders, <<ComplementaryOrder(currentNo, c.Cleaners[textures[i]])>>))
  ELSE CleanerOrders(c, i + 1, currentNo, orders)

\* ToCleanedOrders rendering the wiping cloth whatever its quantity
ToCleanedOrders_AnyCloth(c, startingNo) ==
  IF ~c.WipingCloth.isNil
  THEN CleanerOrders(c, 1, startingNo + 1,
         AppendAll(NilSlice, <<ComplementaryOrder(startingNo, c.WipingCloth)>>))
  ELSE CleanerOrders(c, 1, startingNo, NilSlice)

ToCleanedOrders(c, startingNo) ==
  IF ~c.WipingCloth.isNil /\ c.WipingCloth.Quantity > 0
  THEN CleanerOrders(c, 1, startingNo + 1,
         AppendAll(NilSlice, <<ComplementaryOrder(startingNo, c.WipingCloth)>>))
  ELSE CleanerOrders(c, 1, startingNo, NilSlice)

(***************************************************************************)
(* implementation.complementaryCalculatorUseCase                           *)
(***************************************************************************)

\* the loop of CalculateWithStartingOrderNo, from product i on
\* the run-time panic of a nil pointer dereference
Panic == "panic: nil pointer dereference"

\* one iteration of the loop of CalculateWithStartingOrderNo: the arguments of
\* log.Errorf read product.ProductId, which panics when product is nil
AddOne(c, product) ==
  LET r == AddProduct(c, product) IN
  IF r.err # NoErr /\ product.isNil THEN [c |-> r.c, err |-> Panic] ELSE r

RECURSIVE AddProducts(_, _, _)
AddProducts(c, mainProducts, i) ==
  IF i > Len(mainProducts) THEN [c |-> c, err |-> NoErr]
  ELSE LET r == AddOne(c, mainProducts[i]) IN
       IF r.err # NoErr THEN r ELSE AddProducts(r.c, mainProducts, i + 1)

\* the returned slice and error; err = Panic stands for the call not returning
CalculateWithStartingOrderNo(mainProducts, startingOrderNo) ==
  IF Len(mainProducts) = 0 THEN [orders |-> EmptySlice, err |-> NoErr]
  ELSE LET r == AddProducts(NewComplementaryCalculation, mainProducts, 1) IN
       IF r.err # NoErr THEN [orders |-> NilSlice, err |-> r.err]
       ELSE [orders |-> ToCleanedOrders(r.c, startingOrderNo), err |-> NoErr]

(***************************************************************************)
(* implementation.orderProcessorUseCase                                    *)
(***************************************************************************)

\* createProductFromParsed putting the ProductId together from the
\* normalized materialId and the modelId
createProductFromParsed_NormalizedId(parsedProduct) ==
  LET code == ParseProductCode(parsedProduct.CleanProductId)
      product == [isNil |-> FALSE,
                  ProductId |-> code.materialId \o <<"-">> \o code.modelId,
                  MaterialId |-> code.materialId,
                  ModelId |-> code.modelId,
                  Quantity |-> parsedProduct.Quantity,
                  UnitPrice |-> parsedProduct.UnitPrice,
                  TotalPrice |-> parsedProduct.TotalPrice]
  IN
  IF code.err # NoErr THEN [product |-> NilProduct, err |-> code.err]
  ELSE IF ProductIsValid(product) # NoErr
       THEN [product |-> NilProduct, err |-> ProductIsValid(product)]
  ELSE [product |-> product, err |-> NoErr]

\* createProductFromParsed wrapping the error of ParseProductCode in another
createProductFromParsed_OtherError(parsedProduct) ==
  LET code == ParseProductCode(parsedProduct.CleanProductId)
      product == [isNil |-> FALSE,
                  ProductId |-> parsedProduct.CleanProductId,
                  MaterialId |-> code.materialId,
                  ModelId |-> code.modelId,
                  Quantity |-> parsedProduct.Quantity,
                  UnitPrice |-> parsedProduct.UnitPrice,
                  TotalPrice |-> parsedProduct.TotalPrice]
  IN
  IF code.err # NoErr THEN [product |-> NilProduct, err |-> ErrUnprocessableEntity]
  ELSE IF ProductIsValid(product) # NoErr
       THEN [product |-> NilProduct, err |-> ProductIsValid(product)]
  ELSE [product |-> product, err |-> NoErr]

createProductFromParsed(parsedProduct) ==
  LET code == ParseProductCode(parsedProduct.CleanProductId)
      product == [isNil |-> FALSE,
                  ProductId |-> parsedProduct.CleanProductId,
                  MaterialId |-> code.materialId,
                  ModelId |-> code.modelId,
                  Quantity |-> parsedProduct.Quantity,
                  UnitPrice |-> parsedProduct.UnitPrice,
                  TotalPrice |-> parsedProduct.TotalPrice]
  IN
  IF code.err # NoErr THEN [product |-> NilProduct, err |-> code.err]
  ELSE IF ProductIsValid(product) # NoErr
       THEN [product |-> NilProduct, err |-> ProductIsValid(product)]
  ELSE [product |-> product, err |-> NoErr]

\* validateInputOrders returning after the first line
validateInputOrders_FirstOnly(orders) ==
  IF Len(orders) = 0 THEN NoErr
  ELSE IF orders[1].isNil THEN ErrInvalidInput
  ELSE InputOrderIsValid(orders[1])

RECURSIVE validateInputOrders(_)
validateInputOrders(orders) ==
  IF Len(orders) = 0 THEN NoErr
  ELSE IF orders[1].isNil THEN ErrInvalidInput
  ELSE IF InputOrderIsValid(orders[1]) # NoErr THEN InputOrderIsValid(orders[1])
  ELSE validateInputOrders(Tail(orders))

RECURSIVE validateCleanedOrders(_)
validateCleanedOrders(orders) ==
  IF Len(orders) = 0 THEN NoErr
  ELSE IF orders[1].isNil THEN ErrInvalidInput
  ELSE IF CleanedOrderIsValid(orders[1]) # NoErr
       THEN CleanedOrderIsValid(orders[1])
  ELSE validateCleanedOrders(Tail(orders))

\* the inner loop of ProcessOrders without currentOrderNo++
RECURSIVE ExpandLine_NoIncrement(_, _, _, _, _)
ExpandLine_NoIncrement(parsedProducts, k, mains, cleaned, orderNo) ==
  IF k > Len(parsedProducts)
  THEN [mains |-> mains, cleaned |-> cleaned, orderNo |-> orderNo, err |-> NoErr]
  ELSE LET r == createProductFromParsed(parsedProducts[k]) IN
       IF r.err # NoErr
       THEN [mains |-> mains, cleaned |-> cleaned, orderNo |-> orderNo,
             err |-> r.err]
       ELSE ExpandLine_NoIncrement(parsedProducts, k + 1,
                       AppendAll(mains, <<r.product>>),
                       AppendAll(cleaned, <<ToCleanedOrder(r.product, orderNo)>>),
                       orderNo)

\* the inner loop of ProcessOrders putting each new line in front of the list
RECURSIVE ExpandLine_Prepend(_, _, _, _, _)
ExpandLine_Prepend(parsedProducts, k, mains, cleaned, orderNo) ==
  IF k > Len(parsedProducts)
  THEN [mains |-> mains, cleaned |-> cleaned, orderNo |-> orderNo, err |-> NoErr]
  ELSE LET r == createProductFromParsed(parsedProducts[k]) IN
       IF r.err # NoErr
       THEN [mains |-> mains, cleaned |-> cleaned, orderNo |-> orderNo,
             err |-> r.err]
       ELSE ExpandLine_Prepend(parsedProducts, k + 1,
                       AppendAll(mains, <<r.product>>),
                       [isNil |-> FALSE,
                        items |-> <<ToCleanedOrder(r.product, orderNo)>>
                                    \o cleaned.items],
                       orderNo + 1)

\* the inner loop of ProcessOrders over the parsed products of one line, from
\* product k on: the locals after it, and the error that ended it
RECURSIVE ExpandLine(_, _, _, _, _)
ExpandLine(parsedProducts, k, mains, cleaned, orderNo) ==
  IF k > Len(parsedProducts)
  THEN [mains |-> mains, cleaned |-> cleaned, orderNo |-> orderNo, err |-> NoErr]
  ELSE LET r == createProductFromParsed(parsedProducts[k]) IN
       IF r.err # NoErr
       THEN [mains |-> mains, cleaned |-> cleaned, orderNo |-> orderNo,
             err |-> r.err]
       ELSE ExpandLine(parsedProducts, k + 1,
                       AppendAll(mains, <<r.product>>),
                       AppendAll(cleaned, <<ToCleanedOrder(r.product, orderNo)>>),
                       orderNo + 1)

(***************************************************************************)
(* Inputs: platform product ids, prices and order lines                     *)
(***************************************************************************)

\* "FG0A-CLEAR-OPPOA3": one member, no multiplier
IdPlain ==
  <<"F","G","0","A","-","C","L","E","A","R","-","O","P","P","O","A","3">>

\* "--FG0A-CLEAR-OPPOA3*2/FG0A-MATTE-OPPOA3": junk prefix, bundle of two, one multiplier
IdBundle ==
  <<"-","-","F","G","0","A","-","C","L","E","A","R","-","O","P","P","O","A","3","*","2","/","F","G","0","A","-","M","A","T","T","E","-","O","P","P","O","A","3">>

\* "x2-3&FG05-privacy-A-B*3": junk prefix, lower-case texture, dashed model id, multiplier
IdPrivacy ==
  <<"x","2","-","3","&","F","G","0","5","-","p","r","i","v","a","c","y","-","A","-","B","*","3">>

\* "%20xFG0A-MAT": two segments: the model id is inferred
IdTwoSegments ==
  <<"%","2","0","x","F","G","0","A","-","M","A","T">>

\* "FG1A-MATTE-A / FG1B-CLEAR-B*2/%20xFG0A-PRIVACY-C": bundle of three with spaces and a leftover artifact
IdThree ==
  <<"F","G","1","A","-","M","A","T","T","E","-","A"," ","/"," ","F","G","1","B","-","C","L","E","A","R","-","B","*","2","/","%","2","0","x","F","G","0","A","-","P","R","I","V","A","C","Y","-","C">>

\* "AB-CLEAR-X": film type not starting with FG
IdBadFilm ==
  <<"A","B","-","C","L","E","A","R","-","X">>

\* "FG0A-MATTE-B/FG0A-GLOSS-X": second member has an unknown texture
IdBadSecond ==
  <<"F","G","0","A","-","M","A","T","T","E","-","B","/","F","G","0","A","-","G","L","O","S","S","-","X">>

\* "FG0A-CLEAR-A*0": multiplier 0
IdZeroQty ==
  <<"F","G","0","A","-","C","L","E","A","R","-","A","*","0">>

\* "x2-3&--/": no bundle member left
IdNoMember ==
  <<"x","2","-","3","&","-","-","/">>

\* "FG0A-CLEAR-A*0/FG0A-MATTE-B*2": a member with multiplier 0 beside one with 2
IdZeroMember ==
  <<"F","G","0","A","-","C","L","E","A","R","-","A","*","0","/","F","G","0","A","-","M","A","T","T","E","-","B","*","2">>

\* "FG0A-CLEAR-A*7": multiplier 7
IdSeven ==
  <<"F","G","0","A","-","C","L","E","A","R","-","A","*","7">>

\* "FG0A-CLEAR-A*9223372036854775808/FG0A-MATTE-B*2/FG0A-PRIVACY-C": the first
\* multiplier is MaxInt64 + 1
IdHugeSuffix ==
  <<"F","G","0","A","-","C","L","E","A","R","-","A","*","9","2","2","3","3","7","2","0","3","6","8","5","4","7","7","5","8","0","8","/","F","G","0","A","-","M","A","T","T","E","-","B","*","2","/","F","G","0","A","-","P","R","I","V","A","C","Y","-","C">>

\* "FG0A-MATTE-A*002": multiplier with leading zeros
IdLeadingZeros ==
  <<"F","G","0","A","-","M","A","T","T","E","-","A","*","0","0","2">>

\* "FG0A-CLEAR-A*2*3": two multipliers: only the last one matches
IdTwoStars ==
  <<"F","G","0","A","-","C","L","E","A","R","-","A","*","2","*","3">>

\* "FG0A-CLEAR*2": two segments and a multiplier
IdTwoSegmentsQty ==
  <<"F","G","0","A","-","C","L","E","A","R","*","2">>

\* "FG1A-Mat-X": three segments, the texture `MAT` in mixed case
IdMat ==
  <<"F","G","1","A","-","M","a","t","-","X">>

PlatformIds ==
  { IdPlain, IdBundle, IdPrivacy, IdTwoSegments, IdThree,
    IdBadFilm, IdBadSecond, IdZeroQty, IdNoMember, IdMat }

\* the greatest batch length
MaxBatch == 2

Qtys == {1, 2}

Price50 == Float(50, 0)
Price100 == Float(100, 0)

InputOrder(no, id, qty, unitPrice, totalPrice) ==
  [isNil |-> FALSE, No |-> no, PlatformProductId |-> id, Qty |-> qty,
   UnitPrice |-> unitPrice, TotalPrice |-> totalPrice]

\* lines that pass InputOrder.IsValid
ValidLines ==
  { InputOrder(1, id, q, Price50, Price100) : id \in PlatformIds, q \in Qtys }
  \cup { InputOrder(7, IdPlain, 3, ZeroPrice, ZeroPrice) }

\* one line for every way of failing validateInputOrders
InvalidLines ==
  { NilInputOrder,
    InputOrder(0, IdPlain, 1, Price50, Price100),
    InputOrder(1, <<>>, 1, Price50, Price100),
    InputOrder(1, IdPlain, 0, Price50, Price100),
    InputOrder(1, IdBundle, -1, Price50, Price100),
    InputOrder(1, IdPlain, 1, NilPrice, Price100),
    InputOrder(1, IdPlain, 1, Price50, NilPrice) }

InputLines == ValidLines \cup InvalidLines

Batches == UNION { [1..n -> InputLines] : n \in 0..MaxBatch }

(***************************************************************************)
(* State.  Three entry points are driven, each by its own specification:   *)
(* ProcessOrders (Spec), CalculateWithStartingOrderNo (SpecCalc) and       *)
(* Parse (SpecParse).  The state of a call is its arguments, its locals,   *)
(* its position and what it returned; a specification leaves the           *)
(* variables of the other two calls idle.                                  *)
(***************************************************************************)

VARIABLES
  \* ProcessOrders
  inputOrders,      \* the argument
  pc,               \* "entry", "loop", "final", "done" ("idle": not called)
  idx,              \* the index of the next input line of the loop
  allMainProducts,
  allCleanedOrders,
  currentOrderNo,
  result,           \* the returned slice
  err,              \* the returned error
  calls,            \* how often validateInputOrders, Parse and
                    \* CalculateWithStartingOrderNo have been called
  \* CalculateWithStartingOrderNo
  mainProducts,     \* the arguments
  startingOrderNo,
  cpc,              \* "entry", "loop", "done" ("idle": not called)
  cidx,             \* the index of the next product of the loop
  calculation,
  complementaryOrders,  \* the returned slice
  cerr,             \* the returned error
  \* Parse
  platformProductId,    \* the arguments
  originalQty,
  totalPrice,
  ppc,              \* "entry", "members", "done" ("idle": not called)
  bundleProducts,
  productQuantities,
  pricePerUnit,
  pidx,             \* the index of the next member of the second loop
  parsedProducts,   \* the returned slice
  perr,             \* the returned error
  \* CleanPrefix, SplitBundle and ParseProductCode called on their own
  productId,        \* the argument
  fpc,              \* "entry", "cleaned", "cleanedAgain", "split", "coded"
                    \* ("idle": not called)
  cleaned,          \* what CleanPrefix(productId) returns
  cleanedAgain,     \* what CleanPrefix returns for its own result
  cleanParts,       \* what SplitBundle returns
  code,             \* what ParseProductCode returns
  \* ProcessOrders invoked concurrently on one orderProcessorUseCase
  uc,               \* the fields of the orderProcessorUseCase
  invocations,      \* the frame of every invocation: its argument, its
                    \* locals, its position and what it returned
  \* NewPrice and the operations of a Price called one after the other
  price,            \* the *Price the caller holds
  operation,        \* the last call: its name, receiver, argument and what
                    \* it returned
  operations        \* how many calls have been made

procVars ==
  <<inputOrders, pc, idx, allMainProducts, allCleanedOrders, currentOrderNo,
    result, err, calls>>

calcVars ==
  <<mainProducts, startingOrderNo, cpc, cidx, calculation, complementaryOrders,
    cerr>>

parseVars ==
  <<platformProductId, originalQty, totalPrice, ppc, bundleProducts,
    productQuantities, pricePerUnit, pidx, parsedProducts, perr>>

codeVars == <<productId, fpc, cleaned, cleanedAgain, cleanParts, code>>

concVars == <<uc, invocations>>

priceVars == <<price, operation, operations>>

vars == <<procVars, calcVars, parseVars, codeVars, concVars, priceVars>>

ProcIdle ==
  /\ inputOrders = <<>>
  /\ pc = "idle"
  /\ idx = 0
  /\ allMainProducts = NilSlice
  /\ allCleanedOrders = NilSlice
  /\ currentOrderNo = 0
  /\ result = NilSlice
  /\ err = NoErr
  /\ calls = [validate |-> 0, parse |-> 0, calculate |-> 0]

CalcIdle ==
  /\ mainProducts = <<>>
  /\ startingOrderNo = 0
  /\ cpc = "idle"
  /\ cidx = 0
  /\ calculation = NewComplementaryCalculation
  /\ complementaryOrders = NilSlice
  /\ cerr = NoErr

ParseIdle ==
  /\ platformProductId = <<>>
  /\ originalQty = 0
  /\ totalPrice = NilPrice
  /\ ppc = "idle"
  /\ bundleProducts = <<>>
  /\ productQuantities = <<>>
  /\ pricePerUnit = NilPrice
  /\ pidx = 0
  /\ parsedProducts = <<>>
  /\ perr = NoErr

CodeIdle ==
  /\ productId = <<>>
  /\ fpc = "idle"
  /\ cleaned = <<>>
  /\ cleanedAgain = <<>>
  /\ cleanParts = <<>>
  /\ code = CodeFail

\* lines 17-26: the parser and the calculator handed to the constructor
NewOrderProcessor ==
  [productParser |-> "ProductParserImpl",
   complementaryCalculator |-> "complementaryCalculatorUseCase"]

NoOperation == [name |-> "none"]

PriceIdle == price = NilPrice /\ operation = NoOperation /\ operations = 0

ConcIdle ==
  /\ uc = NewOrderProcessor
  /\ invocations = <<>>

(***************************************************************************)
(* ProcessOrders                                                           *)
(***************************************************************************)

Init ==
  /\ inputOrders \in Batches
  /\ pc = "entry"
  /\ idx = 0
  /\ allMainProducts = NilSlice
  /\ allCleanedOrders = NilSlice
  /\ currentOrderNo = 0
  /\ result = NilSlice
  /\ err = NoErr
  /\ calls = [validate |-> 0, parse |-> 0, calculate |-> 0]
  /\ CalcIdle
  /\ ParseIdle
  /\ CodeIdle
  /\ ConcIdle
  /\ PriceIdle

\* the short circuit returning a nil slice
ReturnEmpty_Nil ==
  /\ pc = "entry"
  /\ Len(inputOrders) = 0
  /\ pc' = "done"
  /\ result' = NilSlice
  /\ err' = NoErr
  /\ UNCHANGED <<inputOrders, idx, allMainProducts, allCleanedOrders,
                 currentOrderNo, calls>>
  /\ UNCHANGED <<calcVars, parseVars, codeVars, concVars, priceVars>>

\* lines 29-31
ReturnEmpty ==
  /\ pc = "entry"
  /\ Len(inputOrders) = 0
  /\ pc' = "done"
  /\ result' = EmptySlice
  /\ err' = NoErr
  /\ UNCHANGED <<inputOrders, idx, allMainProducts, allCleanedOrders,
                 currentOrderNo, calls>>
  /\ UNCHANGED <<calcVars, parseVars, codeVars, concVars, priceVars>>

\* a rejected batch returning an empty slice beside the error
ValidateInput_EmptyOnError ==
  /\ pc = "entry"
  /\ Len(inputOrders) # 0
  /\ calls' = [calls EXCEPT !.validate = @ + 1]
  /\ IF validateInputOrders(inputOrders) # NoErr
     THEN /\ pc' = "done"
          /\ result' = EmptySlice
          /\ err' = validateInputOrders(inputOrders)
          /\ UNCHANGED <<idx, allMainProducts, allCleanedOrders, currentOrderNo>>
     ELSE /\ pc' = "loop"
          /\ idx' = 1
          /\ allMainProducts' = NilSlice
          /\ allCleanedOrders' = NilSlice
          /\ currentOrderNo' = 1
          /\ UNCHANGED <<result, err>>
  /\ UNCHANGED inputOrders
  /\ UNCHANGED <<calcVars, parseVars, codeVars, concVars, priceVars>>

\* lines 33-40
ValidateInput ==
  /\ pc = "entry"
  /\ Len(inputOrders) # 0
  /\ calls' = [calls EXCEPT !.validate = @ + 1]
  /\ IF validateInputOrders(inputOrders) # NoErr
     THEN /\ pc' = "done"
          /\ result' = NilSlice
          /\ err' = validateInputOrders(inputOrders)
          /\ UNCHANGED <<idx, allMainProducts, allCleanedOrders, currentOrderNo>>
     ELSE /\ pc' = "loop"
          /\ idx' = 1
          /\ allMainProducts' = NilSlice
          /\ allCleanedOrders' = NilSlice
          /\ currentOrderNo' = 1
          /\ UNCHANGED <<result, err>>
  /\ UNCHANGED inputOrders
  /\ UNCHANGED <<calcVars, parseVars, codeVars, concVars, priceVars>>

\* lines 43-68, one iteration of the outer loop
ProcessLine ==
  /\ pc = "loop"
  /\ idx <= Len(inputOrders)
  /\ calls' = [calls EXCEPT !.parse = @ + 1]
  /\ LET inputOrder == inputOrders[idx]
         parsed == Parse(inputOrder.PlatformProductId, inputOrder.Qty,
                         inputOrder.TotalPrice)
         x == ExpandLine(parsed.products, 1, allMainProducts, allCleanedOrders,
                         currentOrderNo)
     IN
     IF parsed.err # NoErr
     THEN /\ pc' = "done"
          /\ result' = NilSlice
          /\ err' = parsed.err
          /\ UNCHANGED <<idx, allMainProducts, allCleanedOrders, currentOrderNo>>
     ELSE /\ allMainProducts' = x.mains
          /\ allCleanedOrders' = x.cleaned
          /\ currentOrderNo' = x.orderNo
          /\ IF x.err # NoErr
             THEN /\ pc' = "done"
                  /\ result' = NilSlice
                  /\ err' = x.err
                  /\ UNCHANGED idx
             ELSE /\ idx' = idx + 1
                  /\ UNCHANGED <<pc, result, err>>
  /\ UNCHANGED inputOrders
  /\ UNCHANGED <<calcVars, parseVars, codeVars, concVars, priceVars>>

\* lines 70-76
Complementary ==
  /\ pc = "loop"
  /\ idx > Len(inputOrders)
  /\ calls' = [calls EXCEPT !.calculate = @ + 1]
  /\ LET r == CalculateWithStartingOrderNo(allMainProducts.items, currentOrderNo) IN
     IF r.err # NoErr
     THEN /\ pc' = "done"
          /\ result' = NilSlice
          /\ err' = r.err
          /\ UNCHANGED allCleanedOrders
     ELSE /\ allCleanedOrders' = AppendAll(allCleanedOrders, r.orders.items)
          /\ pc' = "final"
          /\ UNCHANGED <<result, err>>
  /\ UNCHANGED <<inputOrders, idx, allMainProducts, currentOrderNo>>
  /\ UNCHANGED <<calcVars, parseVars, codeVars, concVars, priceVars>>

\* lines 78-83
FinalValidation ==
  /\ pc = "final"
  /\ pc' = "done"
  /\ IF validateCleanedOrders(allCleanedOrders.items) # NoErr
     THEN /\ result' = NilSlice
          /\ err' = validateCleanedOrders(allCleanedOrders.items)
     ELSE /\ result' = allCleanedOrders
          /\ err' = NoErr
  /\ UNCHANGED <<inputOrders, idx, allMainProducts, allCleanedOrders,
                 currentOrderNo, calls>>
  /\ UNCHANGED <<calcVars, parseVars, codeVars, concVars, priceVars>>

Next ==
  \/ ReturnEmpty
  \/ ValidateInput
  \/ ProcessLine
  \/ Complementary
  \/ FinalValidation

Spec == Init /\ [][Next]_vars

(***************************************************************************)
(* CalculateWithStartingOrderNo, one loop iteration at a time              *)
(***************************************************************************)

MainProduct(materialId, quantity) ==
  [isNil |-> FALSE, ProductId |-> materialId \o <<"-">> \o OPPOA3,
   MaterialId |-> materialId, ModelId |-> OPPOA3, Quantity |-> quantity,
   UnitPrice |-> Price50, TotalPrice |-> Price50]

MatClear == <<"F", "G", "0", "A", "-", "C", "L", "E", "A", "R">>
MatMatte == <<"F", "G", "0", "A", "-", "M", "A", "T", "T", "E">>
MatPrivacy == <<"F", "G", "0", "5", "-", "P", "R", "I", "V", "A", "C", "Y">>
MatLowerClear == <<"F", "G", "0", "A", "-", "c", "l", "e", "a", "r">>
MatGloss == <<"F", "G", "0", "A", "-", "G", "L", "O", "S", "S">>
MatNoTexture == <<"F", "G", "0", "A">>

\* the products a caller may hand to the calculator: the calculator checks
\* neither the quantity nor the letter case, and a pointer may be nil
SampleProducts ==
  { MainProduct(MatClear, 1), MainProduct(MatClear, 2),
    MainProduct(MatMatte, 2), MainProduct(MatPrivacy, 1),
    MainProduct(MatLowerClear, 1), MainProduct(MatMatte, 0),
    MainProduct(MatGloss, 1), MainProduct(MatNoTexture, 1), NilProduct }

MaxProducts == 3

StartingNos == {1, 0, -2}

ProductLists == UNION { [1..n -> SampleProducts] : n \in 0..MaxProducts }

InitCalc ==
  /\ mainProducts \in ProductLists
  /\ startingOrderNo \in StartingNos
  /\ cpc = "entry"
  /\ cidx = 0
  /\ calculation = NewComplementaryCalculation
  /\ complementaryOrders = NilSlice
  /\ cerr = NoErr
  /\ ProcIdle
  /\ ParseIdle
  /\ CodeIdle
  /\ ConcIdle
  /\ PriceIdle

\* lines 16-18
CalcReturnEmpty ==
  /\ cpc = "entry"
  /\ Len(mainProducts) = 0
  /\ cpc' = "done"
  /\ complementaryOrders' = EmptySlice
  /\ cerr' = NoErr
  /\ UNCHANGED <<mainProducts, startingOrderNo, cidx, calculation>>
  /\ UNCHANGED <<procVars, parseVars, codeVars, concVars, priceVars>>

\* line 20
CalcStart ==
  /\ cpc = "entry"
  /\ Len(mainProducts) # 0
  /\ cpc' = "loop"
  /\ cidx' = 1
  /\ calculation' = NewComplementaryCalculation
  /\ UNCHANGED <<mainProducts, startingOrderNo, complementaryOrders, cerr>>
  /\ UNCHANGED <<procVars, parseVars, codeVars, concVars, priceVars>>

\* lines 22-27, one iteration
CalcAddProduct ==
  /\ cpc = "loop"
  /\ cidx <= Len(mainProducts)
  /\ LET r == AddOne(calculation, mainProducts[cidx]) IN
     IF r.err # NoErr
     THEN /\ cpc' = "done"
          /\ complementaryOrders' = NilSlice
          /\ cerr' = r.err
          /\ calculation' = r.c
          /\ UNCHANGED cidx
     ELSE /\ calculation' = r.c
          /\ cidx' = cidx + 1
          /\ UNCHANGED <<cpc, complementaryOrders, cerr>>
  /\ UNCHANGED <<mainProducts, startingOrderNo>>
  /\ UNCHANGED <<procVars, parseVars, codeVars, concVars, priceVars>>

\* lines 29-31
CalcRender ==
  /\ cpc = "loop"
  /\ cidx > Len(mainProducts)
  /\ cpc' = "done"
  /\ complementaryOrders' = ToCleanedOrders(calculation, startingOrderNo)
  /\ cerr' = NoErr
  /\ UNCHANGED <<mainProducts, startingOrderNo, cidx, calculation>>
  /\ UNCHANGED <<procVars, parseVars, codeVars, concVars, priceVars>>

NextCalc ==
  \/ CalcReturnEmpty
  \/ CalcStart
  \/ CalcAddProduct
  \/ CalcRender

SpecCalc == InitCalc /\ [][NextCalc]_vars

(***************************************************************************)
(* Parse, one loop iteration at a time                                     *)
(***************************************************************************)

ParseIds ==
  { <<>>, IdPlain, IdBundle, IdPrivacy, IdThree, IdZeroQty, IdNoMember,
    IdZeroMember, IdSeven, IdHugeSuffix, IdLeadingZeros, IdTwoStars,
    IdTwoSegmentsQty }

MaxOriginalQty == 3

OriginalQtys == -1..MaxOriginalQty

\* 99.99, the smallest positive float64, the largest float64 below 2^45, 2^48
\* and the largest float64
PriceCents == FloatDiv(Float(9999, 0), Float(100, 0))
PriceTiny == Float(1, MinBitExp)
PriceBelow45 ==
  [k |-> "fin", neg |-> FALSE, m |-> [i \in 1..MantissaBits |-> 1],
   e |-> 45 - MantissaBits]
Price48 == Float(1, 48)
PriceMax ==
  [k |-> "fin", neg |-> FALSE, m |-> [i \in 1..MantissaBits |-> 1],
   e |-> MaxTopExp + 1 - MantissaBits]

TotalPrices ==
  { NilPrice, ZeroPrice, Price100, PriceCents, PriceTiny, PriceBelow45,
    Price48, PriceMax }

InitParse ==
  /\ platformProductId \in ParseIds
  /\ originalQty \in OriginalQtys
  /\ totalPrice \in TotalPrices
  /\ ppc = "entry"
  /\ bundleProducts = <<>>
  /\ productQuantities = <<>>
  /\ pricePerUnit = NilPrice
  /\ pidx = 0
  /\ parsedProducts = <<>>
  /\ perr = NoErr
  /\ ProcIdle
  /\ CalcIdle
  /\ CodeIdle
  /\ ConcIdle
  /\ PriceIdle

\* lines 27-35
ParseReject ==
  /\ ppc = "entry"
  /\ platformProductId = <<>> \/ totalPrice = NilPrice
  /\ ppc' = "done"
  /\ parsedProducts' = <<>>
  /\ perr' = ErrInvalidInput
  /\ UNCHANGED <<platformProductId, originalQty, totalPrice, bundleProducts,
                 productQuantities, pricePerUnit, pidx>>
  /\ UNCHANGED <<procVars, calcVars, codeVars, concVars, priceVars>>

\* lines 37-57
ParseBegin ==
  /\ ppc = "entry"
  /\ platformProductId # <<>>
  /\ totalPrice # NilPrice
  /\ LET products == SplitBundle(CleanPrefix(platformProductId))
         quantities == ProductQuantities(products, originalQty)
         unit == CalculateUnitPrice(totalPrice, SumSeq(quantities))
     IN
     /\ bundleProducts' = products
     /\ productQuantities' = quantities
     /\ IF unit.err # NoErr
        THEN /\ ppc' = "done"
             /\ perr' = unit.err
             /\ UNCHANGED <<pricePerUnit, pidx>>
        ELSE /\ ppc' = "members"
             /\ pricePerUnit' = unit.p
             /\ pidx' = 1
             /\ UNCHANGED perr
  /\ UNCHANGED <<platformProductId, originalQty, totalPrice, parsedProducts>>
  /\ UNCHANGED <<procVars, calcVars, codeVars, concVars, priceVars>>

\* lines 59-77, one iteration
ParseMember ==
  /\ ppc = "members"
  /\ pidx <= Len(bundleProducts)
  /\ LET cleanProduct == ExtractQuantity(bundleProducts[pidx]).cleanId
         quantity == productQuantities[pidx]
         productTotalPrice == CalculateTotalPrice(pricePerUnit, quantity)
     IN
     IF productTotalPrice.err # NoErr
     THEN /\ ppc' = "done"
          /\ parsedProducts' = <<>>
          /\ perr' = productTotalPrice.err
          /\ UNCHANGED pidx
     ELSE /\ parsedProducts' =
               Append(parsedProducts,
                      [CleanProductId |-> cleanProduct,
                       Quantity |-> quantity,
                       OriginalQty |-> originalQty,
                       UnitPrice |-> pricePerUnit,
                       TotalPrice |-> productTotalPrice.p])
          /\ pidx' = pidx + 1
          /\ UNCHANGED <<ppc, perr>>
  /\ UNCHANGED <<platformProductId, originalQty, totalPrice, bundleProducts,
                 productQuantities, pricePerUnit>>
  /\ UNCHANGED <<procVars, calcVars, codeVars, concVars, priceVars>>

\* line 80
ParseReturn ==
  /\ ppc = "members"
  /\ pidx > Len(bundleProducts)
  /\ ppc' = "done"
  /\ perr' = NoErr
  /\ UNCHANGED <<platformProductId, originalQty, totalPrice, bundleProducts,
                 productQuantities, pricePerUnit, pidx, parsedProducts>>
  /\ UNCHANGED <<procVars, calcVars, codeVars, concVars, priceVars>>

NextParse ==
  \/ ParseReject
  \/ ParseBegin
  \/ ParseMember
  \/ ParseReturn

SpecParse == InitParse /\ [][NextParse]_vars

(***************************************************************************)
(* CleanPrefix, SplitBundle and ParseProductCode, each called on its own   *)
(***************************************************************************)

\* pieces of platform ids: the junk prefixes, a dash, a product start, the
\* bundle separator, a blank, an id of two segments and one of three
Pieces ==
  { prefixes[i] : i \in 1..Len(prefixes) }
  \cup { <<"-">>, <<"F","G">>, <<"/">>, <<" ">>,
         <<"F","G","0","A","-","M","A","T">>,
         <<"X","-","C","L","E","A","R","-","Y">> }

MaxPieces == 3

PieceStrings ==
  { Join(f, <<>>) : f \in UNION { [1..n -> Pieces] : n \in 0..MaxPieces } }

\* dash-separated segments of product codes
Segments ==
  { <<>>, <<"F","G">>, <<"F","G","0","A">>, <<"F","G","x">>,
    <<"C","L","E","A","R">>, <<"m","a","t">>, <<"G","L","O","S","S">>,
    <<"X">> }

MaxSegments == 4

SegmentStrings ==
  { Join(f, <<"-">>) : f \in UNION { [1..n -> Segments] : n \in 0..MaxSegments } }

InitCode ==
  /\ productId \in PieceStrings \cup SegmentStrings
  /\ fpc = "entry"
  /\ cleaned = <<>>
  /\ cleanedAgain = <<>>
  /\ cleanParts = <<>>
  /\ code = CodeFail
  /\ ProcIdle
  /\ CalcIdle
  /\ ParseIdle
  /\ ConcIdle
  /\ PriceIdle

\* CleanPrefix(productId)
CodeClean ==
  /\ fpc = "entry"
  /\ cleaned' = CleanPrefix(productId)
  /\ fpc' = "cleaned"
  /\ UNCHANGED <<productId, cleanedAgain, cleanParts, code>>
  /\ UNCHANGED <<procVars, calcVars, parseVars, concVars, priceVars>>

\* CleanPrefix called on its own result
CodeCleanAgain ==
  /\ fpc = "cleaned"
  /\ cleanedAgain' = CleanPrefix(cleaned)
  /\ fpc' = "cleanedAgain"
  /\ UNCHANGED <<productId, cleaned, cleanParts, code>>
  /\ UNCHANGED <<procVars, calcVars, parseVars, concVars, priceVars>>

\* SplitBundle(cleanedId), as line 38 of Parse calls it
CodeSplit ==
  /\ fpc = "cleaned"
  /\ cleanParts' = SplitBundle(cleaned)
  /\ fpc' = "split"
  /\ UNCHANGED <<productId, cleaned, cleanedAgain, code>>
  /\ UNCHANGED <<procVars, calcVars, parseVars, concVars, priceVars>>

\* ParseProductCode(productId)
CodeParse ==
  /\ fpc = "entry"
  /\ code' = ParseProductCode(productId)
  /\ fpc' = "coded"
  /\ UNCHANGED <<productId, cleaned, cleanedAgain, cleanParts>>
  /\ UNCHANGED <<procVars, calcVars, parseVars, concVars, priceVars>>

NextCode ==
  \/ CodeClean
  \/ CodeCleanAgain
  \/ CodeSplit
  \/ CodeParse

SpecCode == InitCode /\ [][NextCode]_vars

(***************************************************************************)
(* ProcessOrders invoked several times at once on one                      *)
(* orderProcessorUseCase.  An invocation has a frame of its own: its       *)
(* argument, its locals, its position and what it returned.  The           *)
(* invocations share the fields of the orderProcessorUseCase.  A step      *)
(* takes a frame and the fields to the frame and the fields after it.      *)
(***************************************************************************)

\* line 28: the frame on entry
Frame(orders) ==
  [inputOrders |-> orders, pc |-> "entry", idx |-> 0,
   allMainProducts |-> NilSlice, allCleanedOrders |-> NilSlice,
   currentOrderNo |-> 0, result |-> NilSlice, err |-> NoErr]

Return(frame, orders, e) ==
  [frame EXCEPT !.pc = "done", !.result = orders, !.err = e]

\* lines 29-31
ReturnEmptyStep(frame, u) ==
  [frame |-> Return(frame, EmptySlice, NoErr), uc |-> u]

\* lines 33-40
ValidateStep(frame, u) ==
  [frame |->
     IF validateInputOrders(frame.inputOrders) # NoErr
     THEN Return(frame, NilSlice, validateInputOrders(frame.inputOrders))
     ELSE [frame EXCEPT !.pc = "loop", !.idx = 1,
                        !.allMainProducts = NilSlice,
                        !.allCleanedOrders = NilSlice,
                        !.currentOrderNo = 1],
   uc |-> u]

\* the loop body keeping the order number in the orderProcessorUseCase
LineStep_SharedCounter(frame, u) ==
  LET inputOrder == frame.inputOrders[frame.idx]
      parsed == Parse(inputOrder.PlatformProductId, inputOrder.Qty,
                      inputOrder.TotalPrice)
      counter == IF "currentOrderNo" \in DOMAIN u THEN u.currentOrderNo ELSE 1
      x == ExpandLine(parsed.products, 1, frame.allMainProducts,
                      frame.allCleanedOrders, counter)
  IN
  IF parsed.err # NoErr
  THEN [frame |-> Return(frame, NilSlice, parsed.err), uc |-> u]
  ELSE [frame |->
          IF x.err # NoErr
          THEN Return([frame EXCEPT !.allMainProducts = x.mains,
                                    !.allCleanedOrders = x.cleaned,
                                    !.currentOrderNo = x.orderNo],
                      NilSlice, x.err)
          ELSE [frame EXCEPT !.allMainProducts = x.mains,
                             !.allCleanedOrders = x.cleaned,
                             !.currentOrderNo = x.orderNo,
                             !.idx = frame.idx + 1],
        uc |-> [f \in DOMAIN u \cup {"currentOrderNo"} |->
                  IF f = "currentOrderNo" THEN x.orderNo ELSE u[f]]]

\* lines 43-68, one input line
LineStep(frame, u) ==
  LET inputOrder == frame.inputOrders[frame.idx]
      parsed == Parse(inputOrder.PlatformProductId, inputOrder.Qty,
                      inputOrder.TotalPrice)
      x == ExpandLine(parsed.products, 1, frame.allMainProducts,
                      frame.allCleanedOrders, frame.currentOrderNo)
  IN
  [frame |->
     IF parsed.err # NoErr THEN Return(frame, NilSlice, parsed.err)
     ELSE IF x.err # NoErr
     THEN Return([frame EXCEPT !.allMainProducts = x.mains,
                               !.allCleanedOrders = x.cleaned,
                               !.currentOrderNo = x.orderNo],
                 NilSlice, x.err)
     ELSE [frame EXCEPT !.allMainProducts = x.mains,
                        !.allCleanedOrders = x.cleaned,
                        !.currentOrderNo = x.orderNo,
                        !.idx = frame.idx + 1],
   uc |-> u]

\* lines 70-76
ComplementaryStep(frame, u) ==
  LET r == CalculateWithStartingOrderNo(frame.allMainProducts.items,
                                        frame.currentOrderNo)
  IN
  [frame |->
     IF r.err # NoErr THEN Return(frame, NilSlice, r.err)
     ELSE [frame EXCEPT !.pc = "final",
                        !.allCleanedOrders =
                           AppendAll(frame.allCleanedOrders, r.orders.items)],
   uc |-> u]

\* lines 78-83
FinalStep(frame, u) ==
  [frame |->
     IF validateCleanedOrders(frame.allCleanedOrders.items) # NoErr
     THEN Return(frame, NilSlice,
                 validateCleanedOrders(frame.allCleanedOrders.items))
     ELSE Return(frame, frame.allCleanedOrders, NoErr),
   uc |-> u]

\* the batches of the concurrent invocations: empty, rejected by the
\* validation, rejected by Parse, rejected at the second line, and two that
\* succeed
ConcBatches ==
  { <<>>,
    <<InputOrder(1, IdPlain, 0, Price50, Price100)>>,
    <<InputOrder(1, IdNoMember, 1, Price50, Price100)>>,
    <<InputOrder(1, IdPrivacy, 1, Price50, Price100),
      InputOrder(2, IdBadFilm, 1, Price50, Price100)>>,
    <<InputOrder(1, IdBundle, 2, Price50, Price100)>>,
    <<InputOrder(1, IdPlain, 1, Price50, Price100),
      InputOrder(2, IdThree, 2, Price50, Price100)>> }

\* the number of invocations running at once
MaxInvocations == 2

InitConc ==
  /\ uc = NewOrderProcessor
  /\ invocations \in
       { [i \in 1..MaxInvocations |-> Frame(b[i])] :
           b \in [1..MaxInvocations -> ConcBatches] }
  /\ ProcIdle
  /\ CalcIdle
  /\ ParseIdle
  /\ CodeIdle
  /\ PriceIdle

\* invocation i takes the step
Take(i, after) ==
  /\ invocations' = [invocations EXCEPT ![i] = after.frame]
  /\ uc' = after.uc
  /\ UNCHANGED <<procVars, calcVars, parseVars, codeVars, priceVars>>

ConcReturnEmpty ==
  \E i \in DOMAIN invocations :
    /\ invocations[i].pc = "entry"
    /\ Len(invocations[i].inputOrders) = 0
    /\ Take(i, ReturnEmptyStep(invocations[i], uc))

ConcValidate ==
  \E i \in DOMAIN invocations :
    /\ invocations[i].pc = "entry"
    /\ Len(invocations[i].inputOrders) # 0
    /\ Take(i, ValidateStep(invocations[i], uc))

ConcLine ==
  \E i \in DOMAIN invocations :
    /\ invocations[i].pc = "loop"
    /\ invocations[i].idx <= Len(invocations[i].inputOrders)
    /\ Take(i, LineStep(invocations[i], uc))

ConcComplementary ==
  \E i \in DOMAIN invocations :
    /\ invocations[i].pc = "loop"
    /\ invocations[i].idx > Len(invocations[i].inputOrders)
    /\ Take(i, ComplementaryStep(invocations[i], uc))

ConcFinal ==
  \E i \in DOMAIN invocations :
    /\ invocations[i].pc = "final"
    /\ Take(i, FinalStep(invocations[i], uc))

NextConc ==
  \/ ConcReturnEmpty
  \/ ConcValidate
  \/ ConcLine
  \/ ConcComplementary
  \/ ConcFinal

SpecConc == InitConc /\ [][NextConc]_vars

(***************************************************************************)
(* CleanPrefix, one iteration of its loop at a time, and the calls that    *)
(* must return: ProcessOrders and CleanPrefix under weak fairness of       *)
(* their steps (a call that can take a step takes it).                     *)
(***************************************************************************)

\* what the loop may have to cut, and what may follow it
Junk == { prefixes[i] : i \in 1..Len(prefixes) } \cup { <<"-">> }

Tails ==
  { <<>>, <<"-","F","G">>, <<"x">>,
    <<"F","G","0","A","-","C","L","E","A","R","-","A">> }

\* the greatest number of junk pieces in front of an id
MaxJunk == 3

JunkStrings ==
  { Join(f, <<>>) \o t :
      f \in UNION { [1..n -> Junk] : n \in 0..MaxJunk }, t \in Tails }

InitLoop ==
  /\ productId \in JunkStrings
  /\ fpc = "entry"
  /\ cleaned = <<>>
  /\ cleanedAgain = <<>>
  /\ cleanParts = <<>>
  /\ code = CodeFail
  /\ ProcIdle
  /\ CalcIdle
  /\ ParseIdle
  /\ ConcIdle
  /\ PriceIdle

\* lines 94-98
LoopEnter ==
  /\ fpc = "entry"
  /\ IF productId = <<>>
     THEN /\ cleaned' = <<>>
          /\ fpc' = "cleaned"
     ELSE /\ cleaned' = productId
          /\ fpc' = "loop"
  /\ UNCHANGED <<productId, cleanedAgain, cleanParts, code>>
  /\ UNCHANGED <<procVars, calcVars, parseVars, concVars, priceVars>>

\* lines 111-125 and 131-132: a pass ending in `goto next`
LoopNext ==
  /\ fpc = "loop"
  /\ CleanPass(cleaned).next
  /\ cleaned' = CleanPass(cleaned).cleaned
  /\ UNCHANGED <<productId, fpc, cleanedAgain, cleanParts, code>>
  /\ UNCHANGED <<procVars, calcVars, parseVars, concVars, priceVars>>

\* lines 127-129 and 135: `break`, and the return
LoopBreak ==
  /\ fpc = "loop"
  /\ ~CleanPass(cleaned).next
  /\ fpc' = "cleaned"
  /\ UNCHANGED <<productId, cleaned, cleanedAgain, cleanParts, code>>
  /\ UNCHANGED <<procVars, calcVars, parseVars, concVars, priceVars>>

NextLoop ==
  \/ LoopEnter
  \/ LoopNext
  \/ LoopBreak

\* ProcessOrders called with one of the batches of the concurrent invocations
InitBatch ==
  /\ inputOrders \in ConcBatches
  /\ pc = "entry"
  /\ idx = 0
  /\ allMainProducts = NilSlice
  /\ allCleanedOrders = NilSlice
  /\ currentOrderNo = 0
  /\ result = NilSlice
  /\ err = NoErr
  /\ calls = [validate |-> 0, parse |-> 0, calculate |-> 0]
  /\ CalcIdle
  /\ ParseIdle
  /\ CodeIdle
  /\ ConcIdle
  /\ PriceIdle

\* a call of ProcessOrders or a call of CleanPrefix
InitTerm == InitBatch \/ InitLoop

NextTerm == Next \/ NextLoop

\* what a step of ProcessLine or of Complementary does to the position of the
\* call: it is enabled exactly when one of the two is (pc = "loop"), and
\* every step of the two is one
LoopAdvance ==
  /\ pc = "loop"
  /\ pc' \in {"loop", "final", "done"}
  /\ idx' \in {idx, idx + 1}
  /\ <<pc', idx'>> # <<pc, idx>>

\* a call that can take a step takes it; for the two steps of ProcessOrders
\* that call Parse and CalculateWithStartingOrderNo the condition is put
\* on LoopAdvance
SpecTerm ==
  /\ InitTerm
  /\ [][NextTerm]_vars
  /\ WF_vars(NextLoop)
  /\ WF_vars(ReturnEmpty)
  /\ WF_vars(ValidateInput)
  /\ WF_<<pc, idx>>(LoopAdvance)
  /\ WF_vars(FinalValidation)

(***************************************************************************)
(* NewPrice and the operations of a Price, called one after the other on   *)
(* the price the caller holds (SpecPrice)                                  *)
(***************************************************************************)

MaxOperations == 2

FloatNeg(x) == [x EXCEPT !.neg = ~x.neg]

\* the float64 arguments of NewPrice
Amounts ==
  {FloatZero, FloatNeg(FloatZero), PriceTiny, Float(3, 0), Price100, PriceMax,
   FloatNeg(Float(1, 0)), FloatNaN, FloatInf(FALSE)}

\* the *Price arguments of Add and Subtract
Others == {NilPrice, ZeroPrice, PriceTiny, Float(3, 0), PriceMax}

\* the float64 arguments of Multiply and Divide
Factors ==
  {FloatZero, Float(3, 0), Float(1, -1), FloatNeg(Float(1, -1)),
   FloatNeg(Float(3, 0)), FloatNaN, FloatInf(TRUE)}

\* the int arguments of MultiplyByInt and DivideByInt
IntFactors == {-2, 0, 2}

InitPrice ==
  /\ ProcIdle
  /\ CalcIdle
  /\ ParseIdle
  /\ CodeIdle
  /\ ConcIdle
  /\ PriceIdle

\* the caller keeps the price it holds when the call returns an error
Called(name, arg, r) ==
  /\ operations < MaxOperations
  /\ operation' = [name |-> name, p |-> price, arg |-> arg,
                   res |-> r.p, err |-> r.err]
  /\ price' = IF r.err = NoErr THEN r.p ELSE price
  /\ operations' = operations + 1
  /\ UNCHANGED <<procVars, calcVars, parseVars, codeVars, concVars>>

CallNewPrice == \E amount \in Amounts : Called("NewPrice", amount, NewPrice(amount))

CallAdd == \E other \in Others : Called("Add", other, Add(price, other))

CallSubtract ==
  \E other \in Others : Called("Subtract", other, Subtract(price, other))

CallMultiply ==
  \E multiplier \in Factors :
    Called("Multiply", multiplier, Multiply(price, multiplier))

CallMultiplyByInt ==
  \E quantity \in IntFactors :
    Called("MultiplyByInt", quantity, MultiplyByInt(price, quantity))

CallDivide ==
  \E divisor \in Factors : Called("Divide", divisor, Divide(price, divisor))

CallDivideByInt ==
  \E divisor \in IntFactors :
    Called("DivideByInt", divisor, DivideByInt(price, divisor))

NextPrice ==
  \/ CallNewPrice
  \/ CallAdd
  \/ CallSubtract
  \/ CallMultiply
  \/ CallMultiplyByInt
  \/ CallDivide
  \/ CallDivideByInt

SpecPrice == InitPrice /\ [][NextPrice]_vars

(***************************************************************************)
(* Properties of ProcessOrders (Spec)                                      *)
(***************************************************************************)

Returned == pc = "done"
Succeeded == Returned /\ err = NoErr /\ Len(inputOrders) > 0
Failed == Returned /\ err # NoErr

Lines == result.items

RECURSIVE SumOfQty(_)
SumOfQty(orders) ==
  IF Len(orders) = 0 THEN 0 ELSE orders[1].Qty + SumOfQty(Tail(orders))

MainLines == SelectSeq(Lines, IsMainProduct)

\* the second dash-separated segment of a line's MaterialId
TextureOf(order) == Split(order.MaterialId, "-")[2]

LinesWithId(id) == { i \in 1..Len(Lines) : Lines[i].ProductId = id }

\* C1: the i-th line of a successful non-empty batch has No = i, the numbering
\* running on from the main-product lines into the complementary lines.
C1_SequentialNumbering ==
  Succeeded => \A i \in 1..Len(Lines) : Lines[i].No = i

C1_Witness ==
  /\ Succeeded
  /\ Len(Lines) >= 5
  /\ \E i \in 1..(Len(Lines) - 1) :
       /\ IsMainProduct(Lines[i])
       /\ IsComplementaryProduct(Lines[i + 1])
       /\ Lines[i + 1].No = i + 1

\* C2: a successful non-empty batch has exactly one WIPING-CLOTH line, and its
\* Qty is the sum of Qty over the main-product lines.
C2_OneClothPerUnit ==
  Succeeded =>
    /\ Cardinality(LinesWithId(WipingClothProductId)) = 1
    /\ \A i \in LinesWithId(WipingClothProductId) :
         Lines[i].Qty = SumOfQty(MainLines)

C2_Witness ==
  /\ Succeeded
  /\ Len(MainLines) >= 2
  /\ \E i, j \in 1..Len(MainLines) :
       /\ TextureOf(MainLines[i]) # TextureOf(MainLines[j])
       /\ MainLines[i].Qty >= 2
  /\ \E i \in LinesWithId(WipingClothProductId) :
       Lines[i].Qty = SumOfQty(MainLines)

MainLinesOfTexture(t) ==
  SelectSeq(MainLines, LAMBDA o : TextureOf(o) = t)

\* C3: for every texture T, a positive sum S of Qty over the main-product
\* lines of texture T comes with exactly one T-CLEANNER line, of Qty S; and
\* without a main product of texture T there is no T-CLEANNER line.
C3_CleanerPerTexture ==
  Succeeded =>
    \A n \in 1..Len(validTextures) :
      LET t == validTextures[n]
          sum == SumOfQty(MainLinesOfTexture(t))
          cleaners == LinesWithId(t \o CleanerSuffix)
      IN
      /\ sum > 0 => /\ Cardinality(cleaners) = 1
                    /\ \A i \in cleaners : Lines[i].Qty = sum
      /\ Len(MainLinesOfTexture(t)) = 0 => cleaners = {}

C3_Witness ==
  /\ Succeeded
  /\ \E n, k \in 1..Len(validTextures) :
       /\ Len(MainLinesOfTexture(validTextures[n])) >= 2
       /\ \E i \in LinesWithId(validTextures[n] \o CleanerSuffix) :
            Lines[i].Qty = SumOfQty(MainLinesOfTexture(validTextures[n]))
       /\ Len(MainLinesOfTexture(validTextures[k])) = 0
       /\ LinesWithId(validTextures[k] \o CleanerSuffix) = {}

\* C5: a call that returns an error returns a nil list, whichever stage and
\* whichever line failed.
C5_NoPartialOutput ==
  Failed => result = NilSlice

\* the last line of the batch failed after earlier lines had been expanded
C5_Witness ==
  /\ Failed
  /\ result = NilSlice
  /\ idx = Len(inputOrders)
  /\ idx >= 2
  /\ Len(allCleanedOrders.items) >= 1

\* what the claim calls an invalid element of the batch
InvalidElement(o) ==
  \/ o.isNil
  \/ o.No <= 0
  \/ o.PlatformProductId = <<>>
  \/ o.Qty <= 0
  \/ o.UnitPrice = NilPrice
  \/ o.TotalPrice = NilPrice

HasInvalidElement ==
  \E i \in 1..Len(inputOrders) : InvalidElement(inputOrders[i])

\* C6: a batch with an invalid element fails with ErrInvalidInput, at any
\* position of the element, and the parser is never called on such a batch:
\* all lines are validated before the first Parse.
C6_ValidatedBeforeParse ==
  /\ (Returned /\ HasInvalidElement) =>
       (err = ErrInvalidInput /\ result = NilSlice)
  /\ calls.parse > 0 => (calls.validate = 1 /\ ~HasInvalidElement)

C6_Witness ==
  /\ Returned
  /\ Len(inputOrders) = 2
  /\ ~InvalidElement(inputOrders[1])
  /\ InvalidElement(inputOrders[2])
  /\ err = ErrInvalidInput
  /\ calls.validate = 1
  /\ calls.parse = 0

\* C7: an empty batch returns an empty (non-nil) list and no error, and
\* neither validation nor the parser nor the calculator has run.
C7_EmptyBatch ==
  (Returned /\ Len(inputOrders) = 0) =>
    /\ result = EmptySlice
    /\ err = NoErr
    /\ calls = [validate |-> 0, parse |-> 0, calculate |-> 0]

C7_Witness ==
  /\ Returned
  /\ Len(inputOrders) = 0
  /\ result = EmptySlice
  /\ err = NoErr

(***************************************************************************)
(* Properties of CalculateWithStartingOrderNo (SpecCalc)                   *)
(***************************************************************************)

CalcReturned == cpc = "done"

\* the stepwise call computes what the operator computes
CalcMatchesOperator ==
  CalcReturned =>
    CalculateWithStartingOrderNo(mainProducts, startingOrderNo) =
      [orders |-> complementaryOrders, err |-> cerr]

Permuted(list, p) == [i \in 1..Len(list) |-> list[p[i]]]

\* C4: the outcome of CalculateWithStartingOrderNo is the same for every
\* permutation of its product list: the same lines in the same order with the
\* same quantities and order numbers, or the same error.
C4_PermutationInvariant ==
  CalcReturned =>
    \A p \in Permutations(1..Len(mainProducts)) :
      CalculateWithStartingOrderNo(Permuted(mainProducts, p), startingOrderNo) =
        [orders |-> complementaryOrders, err |-> cerr]

(***************************************************************************)
(* Properties of Parse (SpecParse)                                         *)
(***************************************************************************)

ParseReturned == ppc = "done"
ParseAccepted == ParseReturned /\ perr = NoErr

\* the stepwise call computes what the operator computes
ParseMatchesOperator ==
  ParseReturned =>
    Parse(platformProductId, originalQty, totalPrice) =
      [products |-> parsedProducts, err |-> perr]

\* Exact arithmetic on the non-negative finite values m * 2^e, unrounded.
Aligned(x, e) == x.m \o Zeros(x.e - e)

MinExp(x, y) == IF x.e < y.e THEN x.e ELSE y.e

ExactAdd(x, y) ==
  IF Len(x.m) = 0 THEN [m |-> y.m, e |-> y.e]
  ELSE IF Len(y.m) = 0 THEN [m |-> x.m, e |-> x.e]
  ELSE [m |-> AddBits(Aligned(x, MinExp(x, y)), Aligned(y, MinExp(x, y))),
        e |-> MinExp(x, y)]

\* |x - y|
ExactDistance(x, y) ==
  IF Len(x.m) = 0 THEN [m |-> y.m, e |-> y.e]
  ELSE IF Len(y.m) = 0 THEN [m |-> x.m, e |-> x.e]
  ELSE LET a == Aligned(x, MinExp(x, y))
           b == Aligned(y, MinExp(x, y))
       IN [m |-> IF LessBits(a, b) THEN SubBits(b, a) ELSE SubBits(a, b),
           e |-> MinExp(x, y)]

RECURSIVE ExactSum(_)
ExactSum(prices) ==
  IF Len(prices) = 0 THEN [m |-> <<>>, e |-> 0]
  ELSE ExactAdd(prices[1], ExactSum(Tail(prices)))

\* m * 2^e < 1/100, i.e. 100 * m < 2^(-e)
LessThanHundredth(d) ==
  \/ Len(d.m) = 0
  \/ d.e < 0 /\ Len(MulSmall(d.m, 100)) <= -d.e

\* a non-negative finite x is below 2^n
BelowTwoTo(x, n) == Len(x.m) = 0 \/ x.e + Len(x.m) <= n

SumOfTotalPrice ==
  ExactSum([i \in 1..Len(parsedProducts) |-> parsedProducts[i].TotalPrice])

ConservationError == ExactDistance(SumOfTotalPrice, totalPrice)

\* C8 as stated: for every line Parse accepts, the sum of the TotalPrice of
\* the parsed members differs from the line's totalPrice by less than 0.01.
C8_PriceConservation ==
  ParseAccepted => LessThanHundredth(ConservationError)

\* C8, amended: for every line Parse accepts whose totalPrice is below 2^45,
\* the sum of the TotalPrice of the parsed members differs from the line's
\* totalPrice by less than 0.01.
C8_PriceConservationBelow45 ==
  (ParseAccepted /\ BelowTwoTo(totalPrice, 45)) =>
    LessThanHundredth(ConservationError)

\* an accepted bundle whose members' prices do not add up exactly
C8_Witness ==
  /\ ParseAccepted
  /\ BelowTwoTo(totalPrice, 45)
  /\ Len(parsedProducts) >= 2
  /\ Len(ConservationError.m) > 0
  /\ LessThanHundredth(ConservationError)

\* the quantities of the members of the line, and their sum
MemberQuantities ==
  ProductQuantities(SplitBundle(CleanPrefix(platformProductId)), originalQty)

TotalQuantityUnits == SumSeq(MemberQuantities)

SharedUnitPrice == FloatDiv(totalPrice, FloatOfInt(TotalQuantityUnits))

ItemTotal(i) == FloatMul(SharedUnitPrice, FloatOfInt(MemberQuantities[i]))

Allocated ==
  /\ perr = NoErr
  /\ Len(parsedProducts) = Len(MemberQuantities)
  /\ \A i \in 1..Len(parsedProducts) :
       /\ parsedProducts[i].Quantity = MemberQuantities[i]
       /\ parsedProducts[i].UnitPrice = SharedUnitPrice
       /\ parsedProducts[i].TotalPrice = ItemTotal(i)

AllocationFailed == perr = ErrInvalidInput /\ Len(parsedProducts) = 0

\* C9 as stated: with a (non-negative) total price and member quantities of
\* positive sum the allocation succeeds with unitPrice = totalPrice / sum and
\* itemTotal_i = unitPrice * quantity_i; with the total price absent or a sum
\* <= 0 it fails with ErrInvalidInput.
C9_Allocation ==
  (ParseReturned /\ platformProductId # <<>>) =>
    IF totalPrice # NilPrice /\ TotalQuantityUnits > 0
    THEN Allocated
    ELSE AllocationFailed

\* C9, amended: the allocation succeeds, with one unitPrice = totalPrice /
\* sum(quantities) for every member and itemTotal_i = unitPrice * quantity_i,
\* when the total price is present, every member quantity is positive and
\* every itemTotal_i is finite; it fails with ErrInvalidInput when the total
\* price is absent, the sum of the quantities is <= 0, a member quantity is
\* <= 0 or an itemTotal_i overflows.
C9_AllocationPositiveMembers ==
  (ParseReturned /\ platformProductId # <<>>) =>
    IF /\ totalPrice # NilPrice
       /\ TotalQuantityUnits > 0
       /\ \A i \in 1..Len(MemberQuantities) : MemberQuantities[i] > 0
       /\ \A i \in 1..Len(MemberQuantities) : ItemTotal(i).k = "fin"
    THEN Allocated
    ELSE AllocationFailed

\* an accepted bundle whose members have different quantities and a unit
\* price that is not the total
C9_Witness ==
  /\ ParseAccepted
  /\ Allocated
  /\ SharedUnitPrice # totalPrice
  /\ \E i, j \in 1..Len(parsedProducts) :
       /\ parsedProducts[i].Quantity # parsedProducts[j].Quantity
       /\ parsedProducts[i].TotalPrice # parsedProducts[j].TotalPrice
       /\ parsedProducts[i].UnitPrice = parsedProducts[j].UnitPrice

\* the member ends with `*` followed by one or more digits
EndsWithMultiplier(member) ==
  \E i \in 1..(Len(member) - 1) :
    /\ member[i] = "*"
    /\ \A j \in (i + 1)..Len(member) : IsDigit(member[j])

StarOf(member) ==
  CHOOSE i \in 1..(Len(member) - 1) :
    /\ member[i] = "*"
    /\ \A j \in (i + 1)..Len(member) : IsDigit(member[j])

MultiplierDigits(member) == SubSeq(member, StarOf(member) + 1, Len(member))

\* the decimal digits of a natural, and a digit string without leading zeros
RECURSIVE DecimalOf(_)
DecimalOf(n) ==
  IF n < 10 THEN <<Digits[n + 1]>>
  ELSE DecimalOf(n \div 10) \o <<Digits[(n % 10) + 1]>>

WithoutLeadingZeros(d) ==
  IF Len(StripZeroDigits(d)) = 0 THEN <<"0">> ELSE StripZeroDigits(d)

\* the digits stand for a value of at most MaxInt64
FitsInt(d) ==
  LET z == WithoutLeadingZeros(d) IN
  \/ Len(z) < Len(MaxInt64Digits)
  \/ Len(z) = Len(MaxInt64Digits) /\ ~DigitsGreater(z, MaxInt64Digits)

MultiplierApplied(member, parsed) ==
  /\ parsed.Quantity >= 0
  /\ DecimalOf(parsed.Quantity) = WithoutLeadingZeros(MultiplierDigits(member))
  /\ parsed.CleanProductId = SubSeq(member, 1, StarOf(member) - 1)

LineQuantityApplied(member, parsed) ==
  /\ parsed.CleanProductId = member
  /\ parsed.Quantity = originalQty

\* C10 as stated: a member ending with `*` and digits gets the value of the
\* digits as quantity and loses the suffix, whatever the line's quantity; any
\* other member keeps its id and gets the line's quantity originalQty.
C10_MemberQuantity ==
  ParseAccepted =>
    \A i \in 1..Len(bundleProducts) :
      IF EndsWithMultiplier(bundleProducts[i])
      THEN MultiplierApplied(bundleProducts[i], parsedProducts[i])
      ELSE LineQuantityApplied(bundleProducts[i], parsedProducts[i])

\* C10, amended: a member ending with `*` and digits whose value fits an int
\* gets that value as quantity and loses the suffix, whatever the line's
\* quantity; any other member, one whose digits overflow included, keeps its
\* id and gets the line's quantity originalQty.
C10_MemberQuantityFittingInt ==
  ParseAccepted =>
    /\ Len(parsedProducts) = Len(bundleProducts)
    /\ \A i \in 1..Len(bundleProducts) :
         IF /\ EndsWithMultiplier(bundleProducts[i])
            /\ FitsInt(MultiplierDigits(bundleProducts[i]))
         THEN MultiplierApplied(bundleProducts[i], parsedProducts[i])
         ELSE LineQuantityApplied(bundleProducts[i], parsedProducts[i])

\* a line with a multiplier that overflows, a multiplier that differs from
\* the line's quantity and a member without multiplier
C10_Witness ==
  /\ ParseAccepted
  /\ originalQty > 1
  /\ \E i, j, k \in 1..Len(bundleProducts) :
       /\ EndsWithMultiplier(bundleProducts[i])
       /\ ~FitsInt(MultiplierDigits(bundleProducts[i]))
       /\ LineQuantityApplied(bundleProducts[i], parsedProducts[i])
       /\ EndsWithMultiplier(bundleProducts[j])
       /\ MultiplierApplied(bundleProducts[j], parsedProducts[j])
       /\ parsedProducts[j].Quantity # originalQty
       /\ ~EndsWithMultiplier(bundleProducts[k])
       /\ LineQuantityApplied(bundleProducts[k], parsedProducts[k])

(***************************************************************************)
(* Properties of CleanPrefix, SplitBundle and ParseProductCode (SpecCode)  *)
(***************************************************************************)

IsSuffix(r, x) ==
  Len(r) <= Len(x) /\ SubSeq(x, Len(x) - Len(r) + 1, Len(x)) = r

StartsWithJunk(x) ==
  \/ \E i \in 1..Len(prefixes) : HasPrefix(x, prefixes[i])
  \/ HasPrefix(x, <<"-">>) /\ ~HasPrefix(Drop(x, 1), <<"F","G">>)

\* C11: CleanPrefix(CleanPrefix(x)) = CleanPrefix(x); the result is a suffix
\* of x and starts with none of the junk prefixes nor with a `-` that is not
\* immediately followed by `FG`.
C11_CleanPrefixFixedPoint ==
  fpc = "cleanedAgain" =>
    /\ cleanedAgain = cleaned
    /\ IsSuffix(cleaned, productId)
    /\ ~StartsWithJunk(cleaned)

\* two junk prefixes in a row are stripped and something is left
C11_Witness ==
  /\ fpc = "cleanedAgain"
  /\ cleanedAgain = cleaned
  /\ Len(cleaned) > 0
  /\ Len(productId) - Len(cleaned) >= 10

NonEmpty(parts) == SelectSeq(parts, LAMBDA q : Len(q) > 0)

\* the `/`-separated parts of x without their surrounding whitespace
TrimmedParts(x) ==
  [i \in 1..Len(Split(x, "/")) |-> TrimSpace(Split(x, "/")[i])]

\* C12 as stated: SplitBundle returns only non-empty members, in their
\* left-to-right order, and the members are the `/`-separated parts of the
\* cleaned input: no member gains or loses characters other than surrounding
\* whitespace.
C12_SplitIsPartition ==
  fpc = "split" =>
    /\ \A i \in 1..Len(cleanParts) : Len(cleanParts[i]) > 0
    /\ cleanParts = NonEmpty(TrimmedParts(cleaned))

\* the parts without surrounding whitespace and without one leading `%20x`
StrippedParts(x) ==
  [i \in 1..Len(TrimmedParts(x)) |->
     IF HasPrefix(TrimmedParts(x)[i], <<"%","2","0","x">>)
     THEN Drop(TrimmedParts(x)[i], 4)
     ELSE TrimmedParts(x)[i]]

DashesOf(member) == { i \in 1..Len(member) : member[i] = "-" }

\* a member of exactly two dash-separated segments gets `-OPPOA3` appended,
\* its second segment `MAT` becoming `MATTE`; any other member stays
Completed(member) ==
  IF Cardinality(DashesOf(member)) # 1 THEN member
  ELSE LET d == CHOOSE i \in DashesOf(member) : TRUE
           second == SubSeq(member, d + 1, Len(member))
       IN SubSeq(member, 1, d)
            \o (IF second = <<"M","A","T">> THEN <<"M","A","T","T","E">> ELSE second)
            \o <<"-","O","P","P","O","A","3">>

\* C12, amended: SplitBundle returns only non-empty members, in their
\* left-to-right order; each is a `/`-separated part of the cleaned input
\* without its surrounding whitespace and without one leading `%20x` (parts
\* that are empty then are dropped), and a member of exactly two
\* dash-separated segments is completed with the model id OPPOA3 (`MAT`
\* becoming `MATTE`).
C12_SplitStripsAndCompletes ==
  fpc = "split" =>
    /\ \A i \in 1..Len(cleanParts) : Len(cleanParts[i]) > 0
    /\ Len(cleanParts) = Len(NonEmpty(StrippedParts(cleaned)))
    /\ \A i \in 1..Len(cleanParts) :
         cleanParts[i] = Completed(NonEmpty(StrippedParts(cleaned))[i])

\* a bundle with a completed member and a member of three segments left as is
C12_Witness ==
  /\ fpc = "split"
  /\ Len(cleanParts) >= 2
  /\ \E i, j \in 1..Len(cleanParts) :
       /\ cleanParts[i] # NonEmpty(StrippedParts(cleaned))[i]
       /\ cleanParts[j] = NonEmpty(TrimmedParts(cleaned))[j]
       /\ Cardinality(DashesOf(cleanParts[j])) >= 2

CodeAccepted == fpc = "coded" /\ code.err = NoErr

SegmentsOf(id) == Split(id, "-")

\* upper-cased, `MAT` mapped to `MATTE`
NormalizedTexture(segment) ==
  IF ToUpper(segment) = <<"M","A","T">> THEN <<"M","A","T","T","E">>
  ELSE ToUpper(segment)

\* C13: an accepted id with segments s0, s1, s2, ... gives materialId =
\* s0-normalizedTexture(s1) and as modelId everything after the second dash,
\* inner dashes included, so that materialId-modelId has the segments of the
\* input up to the normalization of the texture.
C13_Decomposition ==
  CodeAccepted =>
    LET seg == SegmentsOf(productId) IN
    /\ Len(seg) >= 3
    /\ code.materialId = seg[1] \o <<"-">> \o NormalizedTexture(seg[2])
    /\ code.modelId = Drop(productId, Len(seg[1]) + Len(seg[2]) + 2)
    /\ SegmentsOf(code.materialId \o <<"-">> \o code.modelId) =
         [seg EXCEPT ![2] = NormalizedTexture(seg[2])]

\* an accepted id whose texture is rewritten and whose model id has a dash
C13_Witness ==
  /\ CodeAccepted
  /\ SegmentsOf(productId)[2] # NormalizedTexture(SegmentsOf(productId)[2])
  /\ Len(SegmentsOf(productId)) >= 4
  /\ \E i \in 1..Len(code.modelId) : code.modelId[i] = "-"

StartsWithFG(segment) ==
  Len(segment) >= 2 /\ segment[1] = "F" /\ segment[2] = "G"

RemainingJoined(id) == Join(Tail(Tail(SegmentsOf(id))), <<"-">>)

\* the rejection cases listed for ParseProductCode
ListedRejection(id) ==
  \/ id = <<>>
  \/ Len(SegmentsOf(id)) < 3
  \/ ~StartsWithFG(SegmentsOf(id)[1])
  \/ Len(SegmentsOf(id)[1]) < 3
  \/ NormalizedTexture(SegmentsOf(id)[2]) \notin
       { <<"C","L","E","A","R">>, <<"M","A","T","T","E">>,
         <<"P","R","I","V","A","C","Y">> }
  \/ RemainingJoined(id) = <<>>

\* C14: ParseProductCode returns ErrInvalidInput if and only if the id is
\* empty, has fewer than three segments, has a first segment that does not
\* start with FG or is shorter than three characters, has a second segment
\* that does not normalize to CLEAR, MATTE or PRIVACY, or has an empty join of
\* the segments from the third on; every other id is accepted.
C14_RejectionCases ==
  fpc = "coded" =>
    /\ code.err \in {NoErr, ErrInvalidInput}
    /\ code.err = ErrInvalidInput <=> ListedRejection(productId)

\* the bundle members as written in the identifier, before any repair
WrittenMembers == NonEmpty(StrippedParts(CleanPrefix(platformProductId)))

\* two dash-separated segments followed by `*` and digits
TwoSegmentsWithMultiplier(member) ==
  /\ EndsWithMultiplier(member)
  /\ Cardinality(DashesOf(SubSeq(member, 1, StarOf(member) - 1))) = 1

\* C15: quantity extraction precedes the repair of a malformed id: a member
\* of exactly two segments followed by `*N` comes out of Parse with quantity
\* N and the clean id <filmType>-<texture>-<inferred model id>, which
\* ParseProductCode accepts.
C15_QuantityBeforeRepair ==
  ParseAccepted =>
    /\ Len(parsedProducts) = Len(WrittenMembers)
    /\ \A i \in 1..Len(WrittenMembers) :
         TwoSegmentsWithMultiplier(WrittenMembers[i]) =>
           /\ DecimalOf(parsedProducts[i].Quantity) =
                WithoutLeadingZeros(MultiplierDigits(WrittenMembers[i]))
           /\ parsedProducts[i].CleanProductId =
                Completed(SubSeq(WrittenMembers[i], 1,
                                 StarOf(WrittenMembers[i]) - 1))
           /\ ParseProductCode(parsedProducts[i].CleanProductId).err = NoErr

\* the bundle members written in an identifier, left to right
MembersOf(id) == NonEmpty(StrippedParts(CleanPrefix(id)))

WithoutMultiplier(member) ==
  IF EndsWithMultiplier(member) /\ FitsInt(MultiplierDigits(member))
  THEN SubSeq(member, 1, StarOf(member) - 1)
  ELSE member

\* the product ids of the members of the lines of a batch, line after line
RECURSIVE MemberIdsOf(_)
MemberIdsOf(orders) ==
  IF Len(orders) = 0 THEN <<>>
  ELSE [i \in 1..Len(MembersOf(orders[1].PlatformProductId)) |->
          Completed(WithoutMultiplier(MembersOf(orders[1].PlatformProductId)[i]))]
       \o MemberIdsOf(Tail(orders))

\* C16: in the output of a successful batch every main-product line precedes
\* every complementary line, and the main-product lines follow the input
\* lines and, within a line, the bundle members from left to right.
C16_OutputOrder ==
  Succeeded =>
    /\ \A i, j \in 1..Len(Lines) :
         i < j /\ IsMainProduct(Lines[j]) => IsMainProduct(Lines[i])
    /\ [i \in 1..Len(MainLines) |-> MainLines[i].ProductId] =
         MemberIdsOf(inputOrders)

\* two lines, the first a bundle of three different members, and
\* complementary lines after them
C16_Witness ==
  /\ Succeeded
  /\ Len(inputOrders) = 2
  /\ Len(MembersOf(inputOrders[1].PlatformProductId)) = 3
  /\ Len(MainLines) >= 4
  /\ \A i, j \in 1..Len(MainLines) :
       i # j => MainLines[i].ProductId # MainLines[j].ProductId
  /\ IsComplementaryProduct(Lines[Len(Lines)])

(***************************************************************************)
(* Further properties of CalculateWithStartingOrderNo (SpecCalc)            *)
(***************************************************************************)

\* a product AddProduct is to refuse: nil, a materialId without a second
\* segment, or a second segment other than CLEAR, MATTE or PRIVACY (the
\* letter case left aside)
Refused(product) ==
  \/ product.isNil
  \/ Len(SegmentsOf(product.MaterialId)) < 2
  \/ ToUpper(SegmentsOf(product.MaterialId)[2]) \notin
       { <<"C","L","E","A","R">>, <<"M","A","T","T","E">>,
         <<"P","R","I","V","A","C","Y">> }

\* C17: AddProduct returns ErrInvalidInput for a nil product, for a
\* materialId without a second segment and for a second segment that is no
\* texture, and CalculateWithStartingOrderNo then returns a nil list and that
\* error, whatever valid products came before.
C17_RefusedProduct ==
  CalcReturned =>
    \A i \in 1..Len(mainProducts) :
      Refused(mainProducts[i]) =>
        /\ AddProduct(calculation, mainProducts[i]).err = ErrInvalidInput
        /\ complementaryOrders = NilSlice
        /\ cerr = ErrInvalidInput

CalcSucceeded == CalcReturned /\ cerr = NoErr

Rendered == complementaryOrders.items

\* the quantities of the products of the list whose texture is t, added up
RECURSIVE QuantityOfTexture(_, _)
QuantityOfTexture(products, t) ==
  IF Len(products) = 0 THEN 0
  ELSE (IF GetTexture(products[1]) = t THEN products[1].Quantity ELSE 0)
       + QuantityOfTexture(Tail(products), t)

\* C18: products of quantity 0 are accepted without error and add no line:
\* no rendered line has quantity 0, a list whose products all have quantity
\* 0 and the empty list render nothing, and a texture whose quantities add up
\* to 0 has no cleaner line.
C18_ZeroQuantity ==
  CalcReturned =>
    /\ Len(ToCleanedOrders(NewComplementaryCalculation, startingOrderNo).items) = 0
    /\ (\A i \in 1..Len(mainProducts) : ~Refused(mainProducts[i])) =>
         cerr = NoErr
    /\ cerr = NoErr =>
         /\ \A n \in 1..Len(Rendered) : Rendered[n].Qty > 0
         /\ (\A i \in 1..Len(mainProducts) : mainProducts[i].Quantity = 0) =>
              Len(Rendered) = 0
         /\ \A k \in 1..Len(validTextures) :
              QuantityOfTexture(mainProducts, validTextures[k]) = 0 =>
                \A n \in 1..Len(Rendered) :
                  Rendered[n].ProductId # validTextures[k] \o CleanerSuffix

\* a product of quantity 0 next to one of another texture: lines are
\* rendered, none of them for the texture of the first
C18_Witness ==
  /\ CalcSucceeded
  /\ Len(Rendered) >= 2
  /\ \E i \in 1..Len(mainProducts) :
       /\ mainProducts[i].Quantity = 0
       /\ QuantityOfTexture(mainProducts, GetTexture(mainProducts[i])) = 0
       /\ \A n \in 1..Len(Rendered) :
            Rendered[n].ProductId # GetTexture(mainProducts[i]) \o CleanerSuffix

\* a non-empty list of products of quantity 0 renders nothing
C18_WitnessAllZero ==
  /\ CalcSucceeded
  /\ Len(mainProducts) >= 2
  /\ \A i \in 1..Len(mainProducts) : mainProducts[i].Quantity = 0
  /\ Len(Rendered) = 0

\* C19: the k lines ToCleanedOrders(startingNo) emits are numbered
\* startingNo, startingNo + 1, ..., startingNo + k - 1 in the order of
\* emission, for every integer startingNo; a texture skipped for its quantity
\* 0 takes no number.
C19_RenderedNumbering ==
  CalcSucceeded =>
    \A n \in 1..Len(Rendered) : Rendered[n].No = startingOrderNo + n - 1

\* a non-positive starting number, and a cleaner of quantity 0 skipped
\* between two emitted cleaners
C19_Witness ==
  /\ CalcSucceeded
  /\ startingOrderNo <= 0
  /\ Len(Rendered) = 3
  /\ Rendered[2].ProductId = validTextures[1] \o CleanerSuffix
  /\ Rendered[3].ProductId = validTextures[3] \o CleanerSuffix
  /\ validTextures[2] \in DOMAIN calculation.Cleaners
  /\ calculation.Cleaners[validTextures[2]].Quantity = 0
  /\ Rendered[3].No = startingOrderNo + 2

(***************************************************************************)
(* Further properties of ProcessOrders (Spec)                               *)
(***************************************************************************)

\* the number of lines made from the input lines
DerivedCount == Len(allMainProducts.items)

NonNegativePrice(p) == p # NilPrice /\ p.k = "fin" /\ (~p.neg \/ Len(p.m) = 0)

\* C20: every line of a successful batch has No > 0, a non-empty ProductId,
\* Qty > 0 and non-nil, non-negative prices; the lines made from the input
\* have a non-empty MaterialId and ModelId, the complementary lines after
\* them have prices of zero and both ids empty, so that IsMainProduct tells
\* the two kinds apart.
C20_LineInvariants ==
  Succeeded =>
    /\ DerivedCount <= Len(Lines)
    /\ \A n \in 1..Len(Lines) :
         /\ ~Lines[n].isNil
         /\ Lines[n].No > 0
         /\ Lines[n].ProductId # <<>>
         /\ Lines[n].Qty > 0
         /\ NonNegativePrice(Lines[n].UnitPrice)
         /\ NonNegativePrice(Lines[n].TotalPrice)
         /\ IsMainProduct(Lines[n]) # IsComplementaryProduct(Lines[n])
         /\ IF n <= DerivedCount
            THEN /\ Lines[n].MaterialId # <<>>
                 /\ Lines[n].ModelId # <<>>
                 /\ IsMainProduct(Lines[n])
            ELSE /\ FloatIsZero(Lines[n].UnitPrice)
                 /\ FloatIsZero(Lines[n].TotalPrice)
                 /\ Lines[n].MaterialId = <<>>
                 /\ Lines[n].ModelId = <<>>
                 /\ IsComplementaryProduct(Lines[n])

\* a batch with a main line of price zero, a main line with a price, and
\* complementary lines
C20_Witness ==
  /\ Succeeded
  /\ DerivedCount >= 2
  /\ Len(Lines) >= DerivedCount + 2
  /\ \E n \in 1..DerivedCount : FloatIsZero(Lines[n].TotalPrice)
  /\ \E n \in 1..DerivedCount : ~FloatIsZero(Lines[n].TotalPrice)

(***************************************************************************)
(* Properties of concurrent invocations (SpecConc)                          *)
(***************************************************************************)

\* the step an invocation takes next
StepOf(frame, u) ==
  IF frame.pc = "entry"
  THEN (IF Len(frame.inputOrders) = 0 THEN ReturnEmptyStep(frame, u)
        ELSE ValidateStep(frame, u))
  ELSE IF frame.pc = "loop"
  THEN (IF frame.idx <= Len(frame.inputOrders) THEN LineStep(frame, u)
        ELSE ComplementaryStep(frame, u))
  ELSE FinalStep(frame, u)

\* the frame in which an invocation running alone returns
RECURSIVE RunAlone(_, _)
RunAlone(frame, u) ==
  IF frame.pc = "done" THEN frame
  ELSE LET step == StepOf(frame, u) IN RunAlone(step.frame, step.uc)

\* C21: whatever the interleaving of the invocations on one
\* orderProcessorUseCase, an invocation that has returned has returned what
\* it returns when it runs alone, and no invocation has written a field of
\* the orderProcessorUseCase.
C21_Isolation ==
  /\ uc = NewOrderProcessor
  /\ \A i \in DOMAIN invocations :
       invocations[i].pc = "done" =>
         LET alone == RunAlone(Frame(invocations[i].inputOrders),
                               NewOrderProcessor)
         IN /\ invocations[i].result = alone.result
            /\ invocations[i].err = alone.err

\* two invocations that both produced lines, the second having been in its
\* loop while the first was
C21_Witness ==
  /\ Len(invocations) >= 2
  /\ invocations[1].pc = "done"
  /\ invocations[1].err = NoErr
  /\ Len(invocations[1].result.items) >= 4
  /\ invocations[2].pc = "loop"
  /\ invocations[2].idx = 2
  /\ Len(invocations[2].inputOrders) = 2
  /\ invocations[2].inputOrders # invocations[1].inputOrders

(***************************************************************************)
(* Termination (SpecTerm)                                                   *)
(***************************************************************************)

CleanReturned == fpc = "cleaned"

\* every pass of the loop of CleanPrefix that does not leave the loop makes
\* the string shorter, cutting at its front
PassShortens ==
  fpc = "loop" /\ fpc' = "loop" =>
    /\ Len(cleaned') < Len(cleaned)
    /\ IsSuffix(cleaned', cleaned)

\* C22: a call of ProcessOrders returns for every batch, and a call of
\* CleanPrefix returns for every string, every pass of its loop that does not
\* leave the loop cutting at least one character off the front of the string.
C22_Termination ==
  /\ <>(Returned \/ CleanReturned)
  /\ [][PassShortens]_vars

\* a call of CleanPrefix that returned after three passes or more
C22_Witness ==
  /\ CleanReturned
  /\ cleaned = CleanPrefix(productId)
  /\ Len(productId) - Len(cleaned) >= 6
  /\ Len(cleaned) > 0

(***************************************************************************)
(* Properties of the Price operations (SpecPrice)                          *)
(***************************************************************************)

OperationReturned == operation # NoOperation

\* the amount of a price is finite and not below zero
FiniteNonNegative(p) == p # NilPrice /\ p.k = "fin" /\ ~FloatNegative(p)

\* x < y as real numbers, for amounts that are finite and not below zero
RealLess(x, y) ==
  IF FloatIsZero(y) THEN FALSE
  ELSE IF FloatIsZero(x) THEN TRUE
  ELSE MagnitudeLess(x, y)

PositiveAmount(p) == p # NilPrice /\ p.k = "fin" /\ ~p.neg /\ Len(p.m) > 0

NegativeNumber(x) == x.k = "fin" /\ x.neg /\ Len(x.m) > 0

\* the result of the last call, taken as a real number, is below zero
MathematicallyNegative ==
  \/ /\ operation.name = "Subtract"
     /\ RealLess(Amount(operation.p), Amount(operation.arg))
  \/ /\ operation.name \in {"Multiply", "Divide"}
     /\ PositiveAmount(operation.p)
     /\ NegativeNumber(operation.arg)
  \/ /\ operation.name \in {"MultiplyByInt", "DivideByInt"}
     /\ PositiveAmount(operation.p)
     /\ operation.arg < 0

DivisionByZero ==
  \/ operation.name = "Divide" /\ FloatIsZero(operation.arg)
  \/ operation.name = "DivideByInt" /\ operation.arg = 0

\* C23: every price that NewPrice, Add, Subtract, Multiply, MultiplyByInt,
\* Divide or DivideByInt returns without an error has a finite amount that
\* is not below zero; a call whose result is negative as a real number
\* returns ErrInvalidInput, and so does a division by zero.
C23_PriceInvariants ==
  OperationReturned =>
    /\ (operation.err = NoErr => FiniteNonNegative(operation.res))
    /\ (MathematicallyNegative => operation.err = ErrInvalidInput)
    /\ (DivisionByZero => operation.err = ErrInvalidInput)

\* the first and the last part of C23 on their own
C23_FiniteNonNegative ==
  OperationReturned =>
    /\ (operation.err = NoErr => FiniteNonNegative(operation.res))
    /\ (DivisionByZero => operation.err = ErrInvalidInput)

(***************************************************************************)
(* Further properties of ProcessOrders (Spec)                              *)
(***************************************************************************)

\* the line the loop of ProcessOrders stopped at
FailedLine == inputOrders[idx]

\* the call failed in createProductFromParsed: Parse accepted the line
FailedInProductCode ==
  /\ Failed
  /\ calls.parse >= 1
  /\ calls.calculate = 0
  /\ Parse(FailedLine.PlatformProductId, FailedLine.Qty,
           FailedLine.TotalPrice).err = NoErr

\* C24: every error ProcessOrders returns is ErrInvalidInput, whether the
\* validation of the batch, Parse, createProductFromParsed, the calculator
\* or the final validation failed.
C24_SingleError ==
  Failed => err = ErrInvalidInput

\* ParseProductCode refused a member of a line that Parse had accepted
C24_Witness ==
  /\ FailedInProductCode
  /\ err = ErrInvalidInput

(***************************************************************************)
(* Further properties of SplitBundle (SpecCode)                            *)
(***************************************************************************)

MATTE == <<"M","A","T","T","E">>

\* the model id listed under a key, OPPOA3 for a key that is not listed
ListedModel(key) ==
  CASE key = <<"F","G","0","A","-","M","A","T","T","E">> -> OPPOA3
    [] key = <<"F","G","0","A","-","C","L","E","A","R">> -> OPPOA3
    [] key = <<"F","G","0","5","-","M","A","T","T","E">> -> OPPOA3
    [] OTHER -> OPPOA3

\* what the claim says a member becomes
RepairedAsStated(member, out) ==
  LET segs == Split(member, "-")
      T == IF segs[2] = <<"M","A","T">> THEN MATTE ELSE segs[2]
  IN
  /\ (Len(segs) = 2 /\ QuantityMatch(member) = 0) =>
       out = segs[1] \o <<"-">> \o T \o <<"-">>
               \o ListedModel(segs[1] \o <<"-">> \o T)
  /\ Len(segs) # 2 => out = member

\* C25: a member of exactly two segments F-T without a quantity suffix
\* becomes F-T'-M, where T' is MATTE when T is MAT and T otherwise, and M is
\* the model id listed under F-T' or else OPPOA3; a member of any other
\* number of segments is left as it is.
C25_MalformedIdRepair ==
  fpc = "split" =>
    LET members == NonEmpty(StrippedParts(cleaned)) IN
    /\ Len(cleanParts) = Len(members)
    /\ \A i \in 1..Len(cleanParts) : RepairedAsStated(members[i], cleanParts[i])

\* FG0A-MAT became FG0A-MATTE-OPPOA3 next to a member of three segments
C25_Witness ==
  /\ fpc = "split"
  /\ \E i, j \in 1..Len(cleanParts) :
       /\ NonEmpty(StrippedParts(cleaned))[i] = <<"F","G","0","A","-","M","A","T">>
       /\ cleanParts[i] = <<"F","G","0","A","-","M","A","T","T","E","-">> \o OPPOA3
       /\ Len(Split(cleanParts[j], "-")) = 3
       /\ cleanParts[j] = NonEmpty(StrippedParts(cleaned))[j]

\* a member of two segments under no listed key got the default model id
C25_WitnessDefault ==
  /\ fpc = "split"
  /\ \E i \in 1..Len(cleanParts) :
       /\ Len(Split(NonEmpty(StrippedParts(cleaned))[i], "-")) = 2
       /\ ~HasPrefix(cleanParts[i], <<"F","G","0">>)
       /\ cleanParts[i] = NonEmpty(StrippedParts(cleaned))[i] \o <<"-">> \o OPPOA3

\* every line of the batch passes validateInputOrders
ValidBatch == Len(inputOrders) > 0 /\ ~HasInvalidElement

\* another No and another UnitPrice for a line
OtherNo(o) == IF o.No = 1 THEN 9 ELSE 1

OtherUnitPrice(o) == IF FloatIsZero(o.UnitPrice) THEN PriceCents ELSE ZeroPrice

Renumbered(o) == [o EXCEPT !.No = OtherNo(o), !.UnitPrice = OtherUnitPrice(o)]

\* batches that differ from the batch only in No and UnitPrice: in every
\* line, and in the last line only
Variants(orders) ==
  { [i \in 1..Len(orders) |-> Renumbered(orders[i])],
    [orders EXCEPT ![Len(orders)] = Renumbered(orders[Len(orders)])] }

\* C26: ProcessOrders returns the same for two valid batches that differ
\* only in the No and the UnitPrice of their lines.
C26_IndependentOfNoAndUnitPrice ==
  (Returned /\ ValidBatch) =>
    \A other \in Variants(inputOrders) :
      LET alone == RunAlone(Frame(other), NewOrderProcessor) IN
      /\ alone.result = result
      /\ alone.err = err

\* a batch of two lines that produced lines, one of its lines with the No 7
\* and the UnitPrice 0
C26_Witness ==
  /\ Succeeded
  /\ ValidBatch
  /\ Len(inputOrders) = 2
  /\ inputOrders[1].No = 7
  /\ inputOrders[2].No = 1
  /\ Len(Lines) >= 3
  /\ \E other \in Variants(inputOrders) :
       /\ other[1].No # 7
       /\ other[1].UnitPrice # inputOrders[1].UnitPrice
       /\ RunAlone(Frame(other), NewOrderProcessor).result = result

\* the identifier of a line is left without a bundle member: junk prefixes
\* and `/` only
ZeroMembers(o) == Len(MembersOf(o.PlatformProductId)) = 0

RECURSIVE MemberCount(_)
MemberCount(orders) ==
  IF Len(orders) = 0 THEN 0
  ELSE Len(MembersOf(orders[1].PlatformProductId)) + MemberCount(Tail(orders))

\* C27: Parse fails with ErrInvalidInput on a line whose identifier is left
\* without a bundle member, and so does ProcessOrders on a batch with such
\* a line; in a successful result every input line has at least one
\* main-product line.
C27_NoEmptyLine ==
  /\ (Returned /\ ValidBatch) =>
       \A i \in 1..Len(inputOrders) :
         ZeroMembers(inputOrders[i]) =>
           /\ Parse(inputOrders[i].PlatformProductId, inputOrders[i].Qty,
                    inputOrders[i].TotalPrice).err = ErrInvalidInput
           /\ err = ErrInvalidInput
  /\ Succeeded =>
       /\ \A i \in 1..Len(inputOrders) : ~ZeroMembers(inputOrders[i])
       /\ Len(MainLines) = MemberCount(inputOrders)
       /\ Len(MainLines) >= Len(inputOrders)

\* the second line of a valid batch has no member: the first was expanded,
\* then Parse failed
C27_Witness ==
  /\ Failed
  /\ ValidBatch
  /\ idx = 2
  /\ ZeroMembers(inputOrders[2])
  /\ ~ZeroMembers(inputOrders[1])
  /\ Len(allMainProducts.items) >= 1
  /\ err = ErrInvalidInput

(***************************************************************************)
(* Further properties of AddProduct (SpecCalc)                             *)
(***************************************************************************)

\* the step is a call of AddProduct that returned an error
AddProductFailed == cpc = "loop" /\ cpc' = "done" /\ cerr' # NoErr

\* C28: a call of AddProduct that returns an error leaves the
\* ComplementaryCalculation as it was: the same WipingCloth and the same
\* entries of Cleaners, each with its quantity.
C28_FailedAddIsFrame ==
  [][AddProductFailed =>
       /\ calculation'.WipingCloth = calculation.WipingCloth
       /\ DOMAIN calculation'.Cleaners = DOMAIN calculation.Cleaners
       /\ \A t \in DOMAIN calculation.Cleaners :
            calculation'.Cleaners[t] = calculation.Cleaners[t]]_vars

\* AddProduct refused the third product after two of different textures had
\* been counted
C28_Witness ==
  /\ cpc = "done"
  /\ cerr # NoErr
  /\ cidx = 3
  /\ ~mainProducts[3].isNil
  /\ ~calculation.WipingCloth.isNil
  /\ calculation.WipingCloth.Quantity >= 2
  /\ Cardinality(DOMAIN calculation.Cleaners) = 2

IsClothLine(order) == order.ProductId = WipingClothProductId

RECURSIVE CleanerQty(_)
CleanerQty(orders) ==
  IF Len(orders) = 0 THEN 0
  ELSE (IF IsClothLine(orders[1]) THEN 0 ELSE orders[1].Qty)
       + CleanerQty(Tail(orders))

\* C29: when the calculator accepts a list of products, a rendered
\* WIPING-CLOTH line has as its Qty the sum of the Qty of the rendered
\* cleaner lines, whatever the letter case of the texture segments and
\* whatever the quantities.
C29_ClothEqualsCleaners ==
  CalcSucceeded =>
    \A n \in 1..Len(Rendered) :
      IsClothLine(Rendered[n]) => Rendered[n].Qty = CleanerQty(Rendered)

\* every texture segment of the list is written in upper case
UpperCaseTextures ==
  \A i \in 1..Len(mainProducts) :
    mainProducts[i].isNil
      \/ GetTexture(mainProducts[i]) = ToUpper(GetTexture(mainProducts[i]))

\* the same for lists whose texture segments are all in upper case
C29_UpperCaseOnly ==
  (CalcSucceeded /\ UpperCaseTextures) =>
    \A n \in 1..Len(Rendered) :
      IsClothLine(Rendered[n]) => Rendered[n].Qty = CleanerQty(Rendered)

(***************************************************************************)
(* Properties of the main-product lines of ProcessOrders (Spec)            *)
(***************************************************************************)

\* the members as written in the lines of a batch, without their
\* multipliers, line after line
RECURSIVE WrittenIdsOf(_)
WrittenIdsOf(orders) ==
  IF Len(orders) = 0 THEN <<>>
  ELSE [i \in 1..Len(MembersOf(orders[1].PlatformProductId)) |->
          WithoutMultiplier(MembersOf(orders[1].PlatformProductId)[i])]
       \o WrittenIdsOf(Tail(orders))

\* <filmType>-<T>: filmType starts with FG and has three characters or more,
\* T is CLEAR, MATTE or PRIVACY
CanonicalMaterialId(materialId) ==
  LET seg == SegmentsOf(materialId) IN
  /\ Len(seg) = 2
  /\ StartsWithFG(seg[1])
  /\ Len(seg[1]) >= 3
  /\ seg[2] \in { <<"C","L","E","A","R">>, MATTE, <<"P","R","I","V","A","C","Y">> }

\* C30 as stated: every main-product line of a successful result has a
\* MaterialId <filmType>-<T> with an upper-case texture T, the normalized
\* texture of the member, and its ProductId has the texture segment as it
\* was written in the input.
C30_CanonicalMaterialId ==
  Succeeded =>
    /\ Len(MainLines) = Len(WrittenIdsOf(inputOrders))
    /\ \A k \in 1..Len(MainLines) :
         LET written == SegmentsOf(WrittenIdsOf(inputOrders)[k]) IN
         /\ CanonicalMaterialId(MainLines[k].MaterialId)
         /\ SegmentsOf(MainLines[k].MaterialId)[2] = NormalizedTexture(written[2])
         /\ SegmentsOf(MainLines[k].ProductId)[2] = written[2]

\* the texture segment a member has after the repair of SplitBundle
RepairedTexture(written) ==
  IF Len(written) = 2 /\ written[2] = <<"M","A","T">> THEN MATTE ELSE written[2]

\* C30, amended: the MaterialId is as stated; the ProductId has the texture
\* segment as written, except that a member written with two segments only
\* has its texture `MAT` replaced by `MATTE`.
C30_CanonicalMaterialIdRepaired ==
  Succeeded =>
    /\ Len(MainLines) = Len(WrittenIdsOf(inputOrders))
    /\ \A k \in 1..Len(MainLines) :
         LET written == SegmentsOf(WrittenIdsOf(inputOrders)[k]) IN
         /\ CanonicalMaterialId(MainLines[k].MaterialId)
         /\ SegmentsOf(MainLines[k].MaterialId)[2] = NormalizedTexture(written[2])
         /\ SegmentsOf(MainLines[k].ProductId)[2] = RepairedTexture(written)

\* a lower-case texture and a mixed-case `Mat`, both kept in the ProductId
\* and normalized in the MaterialId
C30_Witness ==
  /\ Succeeded
  /\ \E j, k \in 1..Len(MainLines) :
       /\ SegmentsOf(MainLines[j].ProductId)[2] = <<"p","r","i","v","a","c","y">>
       /\ SegmentsOf(MainLines[j].MaterialId)[2] = <<"P","R","I","V","A","C","Y">>
       /\ SegmentsOf(MainLines[k].ProductId)[2] = <<"M","a","t">>
       /\ SegmentsOf(MainLines[k].MaterialId)[2] = MATTE

\* a member written FG0A-MAT, whose ProductId has MATTE
C30_WitnessRepaired ==
  /\ Succeeded
  /\ \E k \in 1..Len(MainLines) :
       /\ WrittenIdsOf(inputOrders)[k] = <<"F","G","0","A","-","M","A","T">>
       /\ SegmentsOf(MainLines[k].ProductId)[2] = MATTE
====
